---- MODULE Spec2Model ----
(***************************************************************************)
(* The agent control loop of cria (src/app/cli/agent.py): run_agent, the   *)
(* action validator criticize_tool_call, the tool executor execute_tool,   *)
(* and the continuation policy and learning component of                   *)
(* src/app/cli/intelligence.py.                                            *)
(*                                                                         *)
(* Python values are abstracted as follows.                                *)
(*  - A JSON value in the `tool` slot is a record [kind, name]; kind is    *)
(*    "absent" (no key), "null", "str", "num" (hashable non-string) or     *)
(*    "list" (truthy, unhashable).                                         *)
(*  - A JSON value in the `args` slot is a record [kind, keys, text,       *)
(*    response]; kind is "absent", "null", "map", "list", "str" or "num".  *)
(*    keys is the key order of a map or the elements of a list, text the   *)
(*    content of a string, response the type of args["response"].          *)
(*  - A tool output is the set of the phrases the loop and the policy      *)
(*    test for that occur in it.                                           *)
(***************************************************************************)
EXTENDS Integers, Sequences, FiniteSets, TLC

VARIABLES
    pc,             \* position of run_agent
    i,              \* loop variable of `for i in range(MAX_ITERATIONS)`
    memory,         \* Memory.history
    action,         \* local `action`
    criticism,      \* local `criticism`
    user_response,  \* the user's answer that the next tool call rests on
    observation,    \* local `observation`
    actions_taken,  \* len(actions_taken)
    calls,          \* execute_tool calls of the current iteration
    learned,        \* calls of learn_from_interaction, with what each stored
    exit,           \* how run_agent left the loop
    reason,         \* reason printed on a policy stop
    budget,         \* deviations the environment may still produce
    fn,             \* input and result of a function called on its own
    request         \* `messages` of the latest ollama.chat call

vars == <<pc, i, memory, action, criticism, user_response, observation,
          actions_taken, calls, learned, exit, reason, budget, fn, request>>

----------------------------------------------------------------------------
(* Constants of the program and bounds of the model *)

MAX_ITERATIONS == 10

\* Replies and tool outputs per run that leave the plain path of an iteration:
\* malformed LLM replies, rejected (criticised) actions, and tool outputs that
\* match the file-not-found pattern.
MaxDeviations == 2

\* a result of the validator: its kind, the name it quotes, and the tool
\* names it lists
None == [kind |-> "None", arg |-> "", tools |-> <<>>]

Raise(e) == [kind |-> "RAISE", arg |-> e, tools |-> <<>>]

Criticism(k, a) == [kind |-> k, arg |-> a, tools |-> <<>>]

----------------------------------------------------------------------------
(* ToolRegistry: get_available_tools and the signatures of tools.py *)

get_available_tools ==
    << "list_files", "read_file", "read_multiple_files", "write_file",
       "execute_command", "get_project_overview", "explore_codebase",
       "analyze_file", "find_code_patterns", "get_file_dependencies",
       "navigate_to_symbol", "get_code_flow", "suggest_improvements",
       "get_project_health", "execute_with_context", "find_code_smells",
       "suggest_refactoring", "generate_test_suggestions",
       "find_security_issues", "get_code_metrics",
       "generate_documentation_suggestions", "read_and_summarize_project" >>

Range(s) == {s[k] : k \in 1..Len(s)}

ToolNames == Range(get_available_tools)

Req(n) == [name |-> n, required |-> TRUE]

Opt(n) == [name |-> n, required |-> FALSE]

\* inspect.signature(tool_function).parameters, in declared order
Signature(t) ==
    CASE t = "list_files" -> <<Opt("path"), Opt("recursive")>>
      [] t = "read_file" -> <<Req("path")>>
      [] t = "read_multiple_files" -> <<Req("paths")>>
      [] t = "write_file" -> <<Req("path"), Req("content")>>
      [] t = "execute_command" -> <<Req("command")>>
      [] t = "get_project_overview" -> <<>>
      [] t = "explore_codebase" ->
            <<Opt("pattern"), Opt("file_type"), Opt("max_files")>>
      [] t = "analyze_file" -> <<Req("file_path"), Opt("include_content")>>
      [] t = "find_code_patterns" ->
            <<Req("pattern"), Opt("file_types"), Opt("context_lines")>>
      [] t = "get_file_dependencies" -> <<Req("file_path")>>
      [] t = "navigate_to_symbol" -> <<Req("symbol_name"), Opt("file_hint")>>
      [] t = "get_code_flow" -> <<Req("entry_point")>>
      [] t = "suggest_improvements" -> <<Req("file_path")>>
      [] t = "get_project_health" -> <<>>
      [] t = "execute_with_context" -> <<Req("command"), Opt("working_dir")>>
      [] t = "find_code_smells" -> <<Req("file_path")>>
      [] t = "suggest_refactoring" -> <<Req("file_path")>>
      [] t = "generate_test_suggestions" -> <<Req("file_path")>>
      [] t = "find_security_issues" -> <<Req("file_path")>>
      [] t = "get_code_metrics" -> <<Req("file_path")>>
      [] t = "generate_documentation_suggestions" -> <<Req("file_path")>>
      [] t = "read_and_summarize_project" -> <<>>

Declared(t) == {Signature(t)[k].name : k \in 1..Len(Signature(t))}

Required(t) ==
    {Signature(t)[k].name : k \in {j \in 1..Len(Signature(t)) : Signature(t)[j].required}}

\* the set literal of run_agent
auto_execute_tools ==
    { "get_project_overview", "explore_codebase", "analyze_file",
      "find_code_patterns", "get_file_dependencies", "navigate_to_symbol",
      "get_code_flow", "suggest_improvements", "get_project_health",
      "list_files", "read_file", "read_multiple_files", "write_file",
      "find_code_smells", "suggest_refactoring", "generate_test_suggestions",
      "find_security_issues", "get_code_metrics",
      "generate_documentation_suggestions", "read_and_summarize_project" }

\* Tools whose body changes the file system or runs a shell command
\* (open(path, 'w') in write_file, subprocess.run(shell=True) in the other two).
MutatingTools == {"write_file", "execute_command", "execute_with_context"}

----------------------------------------------------------------------------
(* JSON values *)

Tool(k, n) == [kind |-> k, name |-> n]

Args(k, ks, t, r) == [kind |-> k, keys |-> ks, text |-> t, response |-> r]

NoArgs == Args("absent", <<>>, "", "none")

NullArgs == Args("null", <<>>, "", "none")

Map(ks) == Args("map", ks, "", "none")

List(ks) == Args("list", ks, "", "none")

Str(t) == Args("str", <<>>, t, "none")

Act(t, a, th) == [tool |-> t, args |-> a, thought |-> th]

\* mutant: no reply counts as empty
IsEmpty_Never(a) == a.tool.kind = "absent" /\ a.tool.kind # "absent"

\* `not action`: a dict is falsy when it has no key
IsEmpty(a) ==
    a.tool.kind = "absent" /\ a.args.kind = "absent" /\ a.thought = "absent"

\* `not tool_name` for action.get("tool")
Falsy(t) == t.kind \in {"absent", "null"} \/ (t.kind = "str" /\ t.name = "")

\* action.get("args", {})
GetArgs(a) == IF a.args.kind = "absent" THEN Map(<<>>) ELSE a.args

\* `x in v` raises TypeError on None and on a number
InRaises(v) == v.kind \in {"null", "num"}

\* `x in v`: key of a map, element of a list, substring of a string (the
\* strings of the model are no proper superstring of a name they are tested for)
In(x, v) ==
    CASE v.kind \in {"map", "list"} -> x \in Range(v.keys)
      [] v.kind = "str" -> v.text = x
      [] OTHER -> FALSE

\* `for k in v`: keys of a map, elements of a list, characters of a string
\* (a character is no parameter name: every declared name is longer)
Iter(v) ==
    CASE v.kind \in {"map", "list"} -> v.keys
      [] v.kind = "str" -> IF v.text = "" THEN <<>> ELSE <<"<char>">>
      [] OTHER -> <<>>

----------------------------------------------------------------------------
(* ActionValidator: criticize_tool_call *)

MissingRequired(t, v) ==
    {k \in 1..Len(Signature(t)) :
        Signature(t)[k].required /\ ~In(Signature(t)[k].name, v)}

Unexpected(t, v) ==
    {k \in 1..Len(Iter(v)) : Iter(v)[k] \notin Declared(t)}

Min(S) == CHOOSE m \in S : \A n \in S : m <= n

\* mutant: the unexpected-argument check is left out
CheckArguments_NoUnexpected(t, v) ==
    IF Required(t) # {} /\ InRaises(v)
    THEN Criticism("unexpected_error", "TypeError")
    ELSE IF MissingRequired(t, v) # {}
    THEN Criticism("missing_argument", Signature(t)[Min(MissingRequired(t, v))].name)
    ELSE None

\* mutant: the unexpected-argument check comes before the required-argument loop
CheckArguments_UnexpectedFirst(t, v) ==
    IF InRaises(v)
    THEN Criticism("unexpected_error", "TypeError")
    ELSE IF Unexpected(t, v) # {}
    THEN Criticism("unexpected_argument", Iter(v)[Min(Unexpected(t, v))])
    ELSE IF MissingRequired(t, v) # {}
    THEN Criticism("missing_argument", Signature(t)[Min(MissingRequired(t, v))].name)
    ELSE None

\* mutant: the required-argument loop reports the last missing parameter
CheckArguments_LastMissing(t, v) ==
    IF Required(t) # {} /\ InRaises(v)
    THEN Criticism("unexpected_error", "TypeError")
    ELSE IF MissingRequired(t, v) # {}
    THEN Criticism("missing_argument",
                   Signature(t)[CHOOSE m \in MissingRequired(t, v) :
                                    \A n \in MissingRequired(t, v) : m >= n].name)
    ELSE IF InRaises(v)
    THEN Criticism("unexpected_error", "TypeError")
    ELSE IF Unexpected(t, v) # {}
    THEN Criticism("unexpected_argument", Iter(v)[Min(Unexpected(t, v))])
    ELSE None

\* mutant: the criticism names the last unexpected argument
CheckArguments_LastUnexpected(t, v) ==
    IF Required(t) # {} /\ InRaises(v)
    THEN Criticism("unexpected_error", "TypeError")
    ELSE IF MissingRequired(t, v) # {}
    THEN Criticism("missing_argument", Signature(t)[Min(MissingRequired(t, v))].name)
    ELSE IF InRaises(v)
    THEN Criticism("unexpected_error", "TypeError")
    ELSE IF Unexpected(t, v) # {}
    THEN Criticism("unexpected_argument",
                   Iter(v)[CHOOSE m \in Unexpected(t, v) :
                               \A n \in Unexpected(t, v) : m >= n])
    ELSE None

\* the body of the try block: the required-argument loop, then the
\* unexpected-argument check; a TypeError of `in` or of the iteration is
\* caught and reported as a criticism
CheckArguments(t, v) ==
    IF Required(t) # {} /\ InRaises(v)
    THEN Criticism("unexpected_error", "TypeError")
    ELSE IF MissingRequired(t, v) # {}
    THEN Criticism("missing_argument", Signature(t)[Min(MissingRequired(t, v))].name)
    ELSE IF InRaises(v)
    THEN Criticism("unexpected_error", "TypeError")
    ELSE IF Unexpected(t, v) # {}
    THEN Criticism("unexpected_argument", Iter(v)[Min(Unexpected(t, v))])
    ELSE None

\* mutant: the criticism leaves out the last tool of the registry
UnknownTool_ListTruncated(name, available_tools) ==
    [kind |-> "unknown_tool", arg |-> name,
     tools |-> SubSeq(available_tools, 1, Len(available_tools) - 1)]

\* "Unknown tool '<name>'. Please choose from the available tools: <list>"
UnknownTool(name, available_tools) ==
    [kind |-> "unknown_tool", arg |-> name, tools |-> available_tools]

\* criticize_tool_call once a tool name is given
CriticizeNamed(a) ==
    LET tool_name == a.tool
        tool_args == GetArgs(a)
    IN  IF tool_name.kind = "str" /\ tool_name.name = "finish"
        THEN IF InRaises(tool_args)
             THEN Raise("TypeError")
             ELSE IF ~In("response", tool_args)
             THEN Criticism("missing_response", "")
             ELSE None
        ELSE IF tool_name.kind = "list"
        THEN Raise("TypeError")
        ELSE IF tool_name.kind # "str" \/ tool_name.name \notin ToolNames
        THEN UnknownTool(tool_name.name, get_available_tools)
        ELSE CheckArguments(tool_name.name, tool_args)

\* mutant: the missing-tool check lets the action through
criticize_tool_call_NoToolCheck(a) ==
    IF Falsy(a.tool) THEN None ELSE CriticizeNamed(a)

criticize_tool_call(a) ==
    IF Falsy(a.tool)
    THEN Criticism("missing_tool", "")
    ELSE CriticizeNamed(a)

IsCriticism(c) == c.kind \notin {"None", "RAISE"}

----------------------------------------------------------------------------
(* Tool outputs and ToolExecutor: execute_tool *)

\* phrases tested on the raw output (run_agent) and on the lower-cased output
\* (should_continue)
Phrases ==
    { "Error executing tool", "Error: File", "not found",
      "Successfully wrote to 'README.md'", "successfully wrote", "readme.md", "found", "files", "matching",
      "project analysis summary", "file analysis", "error", "no files found",
      "analyzing", "exploring", "searching", "processing",
      "next", "continue", "more", "additional" }

\* a text that contains the phrases of P contains what they contain
Text(P) ==
    P \cup (IF P \cap {"Error executing tool", "Error: File"} # {} THEN {"error"} ELSE {})
      \cup (IF P \cap {"not found", "no files found"} # {} THEN {"found"} ELSE {})
      \cup (IF "no files found" \in P THEN {"files"} ELSE {})
      \cup (IF "Successfully wrote to 'README.md'" \in P
            THEN {"successfully wrote", "readme.md"} ELSE {})

Returns(P) == [raises |-> FALSE, text |-> Text(P)]

Raises(P) == [raises |-> TRUE, text |-> Text(P)]

\* what a tool body can do once its arguments are bound: return a text or
\* raise an exception with a message
BodyOutcomes ==
    { Returns({}),                                  \* "Contents of x.py: ..."
      Returns({"Successfully wrote to 'README.md'"}), \* write_file on README.md
      Returns({"Error: File", "not found"}),        \* read_file, no such file
      Returns({"error"}),                           \* "Error reading file ..."
      Returns({"project analysis summary", "file analysis", "error"}),
                                                    \* read_and_summarize_project
      Raises({}),
      Raises({"Error: File", "not found"}) }

\* tools of tools.py whose whole body is inside try/except Exception
NeverRaises == {"list_files", "read_file", "write_file", "execute_command"}

OutcomesOf(tool_name) ==
    {b \in BodyOutcomes : b.raises => tool_name.name \notin NeverRaises}

\* tool_function(**tool_args) binds the arguments by name
Binds(t, v) ==
    /\ v.kind = "map"
    /\ Required(t) \subseteq Range(v.keys)
    /\ Range(v.keys) \subseteq Declared(t)

Ok(text) == [kind |-> "ok", text |-> text]

ErrorExecuting(msg) == Ok(Text({"Error executing tool"} \cup msg))

execute_tool(tool_name, tool_args, body) ==
    IF tool_name.kind = "list"
    THEN Raise("TypeError")
    ELSE IF tool_name.kind # "str" \/ tool_name.name \notin ToolNames
    THEN Raise("KeyError")
    ELSE IF ~Binds(tool_name.name, tool_args)
    THEN ErrorExecuting({})
    ELSE IF body.raises
    THEN ErrorExecuting(body.text)
    ELSE Ok(body.text)

----------------------------------------------------------------------------
(* ContinuationPolicy and learning: AgentIntelligence *)

Decision(c, r) == [continue |-> c, reason |-> r]

\* the rules that follow the cap rule, as the mutants below share them
should_continue_AfterCap(obs_lower, iteration) ==
    IF {"successfully wrote", "readme.md"} \subseteq obs_lower
    THEN Decision(FALSE, "Task completed - README.md has been written")
    ELSE IF {"found", "files", "matching"} \subseteq obs_lower
    THEN Decision(TRUE, "Found files, need to read and process them")
    ELSE IF {"project analysis summary", "file analysis"} \cap obs_lower # {}
    THEN Decision(TRUE, "Read files, need to write summary to README.md")
    ELSE IF "error" \in obs_lower /\ iteration > 3
    THEN Decision(FALSE, "Too many errors encountered")
    ELSE IF "no files found" \in obs_lower /\ iteration < 5
    THEN Decision(TRUE, "Still searching for files")
    ELSE IF {"analyzing", "exploring", "searching", "processing"} \cap obs_lower # {}
    THEN Decision(TRUE, "Still processing")
    ELSE IF {"next", "continue", "more", "additional"} \cap obs_lower # {}
    THEN Decision(TRUE, "More work indicated")
    ELSE Decision(TRUE, "Continuing exploration")

\* mutant: the error rule comes before the analysis rule
should_continue_ErrorBeforeAnalysis(obs_lower, iteration, max_iterations) ==
    IF iteration >= max_iterations
    THEN Decision(FALSE, "Maximum iterations reached")
    ELSE IF {"successfully wrote", "readme.md"} \subseteq obs_lower
    THEN Decision(FALSE, "Task completed - README.md has been written")
    ELSE IF {"found", "files", "matching"} \subseteq obs_lower
    THEN Decision(TRUE, "Found files, need to read and process them")
    ELSE IF "error" \in obs_lower /\ iteration > 3
    THEN Decision(FALSE, "Too many errors encountered")
    ELSE should_continue_AfterCap(obs_lower, iteration)

\* mutant: the cap rule lets iteration = max_iterations through
should_continue_CapOffByOne(obs_lower, iteration, max_iterations) ==
    IF iteration > max_iterations
    THEN Decision(FALSE, "Maximum iterations reached")
    ELSE should_continue_AfterCap(obs_lower, iteration)

\* mutant: there is no README rule
should_continue_NoReadmeRule(obs_lower, iteration, max_iterations) ==
    IF iteration >= max_iterations
    THEN Decision(FALSE, "Maximum iterations reached")
    ELSE should_continue_AfterCap(obs_lower \ {"successfully wrote"}, iteration)

\* mutant: the policy gives up once an interaction has been learned from
should_continue_Remembers(obs_lower, iteration, max_iterations) ==
    IF iteration >= max_iterations
    THEN Decision(FALSE, "Maximum iterations reached")
    ELSE IF learned # <<>>
    THEN Decision(FALSE, "Too many errors encountered")
    ELSE should_continue_AfterCap(obs_lower, iteration)

\* mutant: the error rule fires one iteration early
should_continue_ErrorsEarly(obs_lower, iteration, max_iterations) ==
    IF iteration >= max_iterations
    THEN Decision(FALSE, "Maximum iterations reached")
    ELSE IF {"successfully wrote", "readme.md"} \subseteq obs_lower
    THEN Decision(FALSE, "Task completed - README.md has been written")
    ELSE IF {"found", "files", "matching"} \subseteq obs_lower
    THEN Decision(TRUE, "Found files, need to read and process them")
    ELSE IF {"project analysis summary", "file analysis"} \cap obs_lower # {}
    THEN Decision(TRUE, "Read files, need to write summary to README.md")
    ELSE IF "error" \in obs_lower /\ iteration >= 3
    THEN Decision(FALSE, "Too many errors encountered")
    ELSE IF "no files found" \in obs_lower /\ iteration < 5
    THEN Decision(TRUE, "Still searching for files")
    ELSE IF {"analyzing", "exploring", "searching", "processing"} \cap obs_lower # {}
    THEN Decision(TRUE, "Still processing")
    ELSE IF {"next", "continue", "more", "additional"} \cap obs_lower # {}
    THEN Decision(TRUE, "More work indicated")
    ELSE Decision(TRUE, "Continuing exploration")

should_continue(obs_lower, iteration, max_iterations) ==
    IF iteration >= max_iterations
    THEN Decision(FALSE, "Maximum iterations reached")
    ELSE IF {"successfully wrote", "readme.md"} \subseteq obs_lower
    THEN Decision(FALSE, "Task completed - README.md has been written")
    ELSE IF {"found", "files", "matching"} \subseteq obs_lower
    THEN Decision(TRUE, "Found files, need to read and process them")
    ELSE IF {"project analysis summary", "file analysis"} \cap obs_lower # {}
    THEN Decision(TRUE, "Read files, need to write summary to README.md")
    ELSE IF "error" \in obs_lower /\ iteration > 3
    THEN Decision(FALSE, "Too many errors encountered")
    ELSE IF "no files found" \in obs_lower /\ iteration < 5
    THEN Decision(TRUE, "Still searching for files")
    ELSE IF {"analyzing", "exploring", "searching", "processing"} \cap obs_lower # {}
    THEN Decision(TRUE, "Still processing")
    ELSE IF {"next", "continue", "more", "additional"} \cap obs_lower # {}
    THEN Decision(TRUE, "More work indicated")
    ELSE Decision(TRUE, "Continuing exploration")

\* final_result is "str" (a string without "project"), "str_project" (a string
\* with it) or "nonstr"; the call stores the patterns when success, then
\* final_result.lower() raises AttributeError on a non-string
learn_from_interaction(n_actions, final_result, success) ==
    [ success  |-> success,
      patterns |-> success,
      insight  |-> final_result = "str_project",
      raised   |-> final_result = "nonstr" ]

----------------------------------------------------------------------------
(* The LLM boundary and the user: the inputs of a run *)

MapResp(r) == Args("map", <<"response">>, "", r)

Named(n) == Tool("str", n)

\* JSON objects json.loads can return for the LLM's reply
LLMActions ==
    { Act(Tool("absent", ""), NoArgs, "absent"),            \* {}
      Act(Tool("absent", ""), Map(<<>>), "dict"),
      Act(Tool("null", ""), NoArgs, "other"),
      Act(Tool("list", ""), Map(<<>>), "dict"),
      Act(Tool("num", "5"), Map(<<>>), "dict"),
      Act(Named("delete_file"), Map(<<"path">>), "dict"),
      Act(Named("finish"), NoArgs, "dict"),
      Act(Named("finish"), NullArgs, "dict"),
      Act(Named("finish"), Map(<<>>), "dict"),
      Act(Named("finish"), MapResp("str"), "dict"),
      Act(Named("finish"), MapResp("str_project"), "absent"),
      Act(Named("finish"), MapResp("nonstr"), "dict"),
      Act(Named("finish"), List(<<"response">>), "dict"),
      Act(Named("finish"), Str("response"), "dict"),
      Act(Named("read_file"), Map(<<"path">>), "dict"),
      Act(Named("read_file"), Map(<<>>), "dict"),
      Act(Named("read_file"), Map(<<"path", "encoding">>), "dict"),
      Act(Named("read_file"), NullArgs, "dict"),
      Act(Named("read_file"), List(<<"path">>), "dict"),
      Act(Named("write_file"), Map(<<"path", "content">>), "dict"),
      Act(Named("write_file"), Map(<<"path">>), "dict"),
      Act(Named("write_file"), Map(<<"mode">>), "dict"),
      Act(Named("execute_command"), Map(<<"command">>), "dict"),
      Act(Named("execute_with_context"), Map(<<"command">>), "other"),
      Act(Named("get_project_overview"), NoArgs, "dict"),
      Act(Named("get_project_overview"), NullArgs, "dict"),
      Act(Named("get_project_overview"), Str(""), "dict"),
      Act(Named("read_multiple_files"), Map(<<"paths">>), "dict") }

\* what the user types at "Execute this action? (y/n): "
UserResponses == {"y", "Y", "n", "yes", ""}

\* str.lower(), for the strings of the model
Lower(s) ==
    CASE s = "Y" -> "y"
      [] s = "Find" -> "find"
      [] s = "Write" -> "write"
      [] s = "README" -> "readme"
      [] OTHER -> s

\* the action run_agent builds for its working-directory probe
ProbeAction == Act(Named("execute_command"), Map(<<"command">>), "absent")

\* execute_command("pwd"): the output of the command, or its error text
ProbeOutcomes ==
    { Returns({}),                                  \* "STDOUT:\n/home/user/project\n..."
      Returns({"error"}),                           \* "Error: Command timed out ..."
      Returns({"Error: File", "not found"}) }       \* a path that holds both phrases

NoAction == Act(Tool("absent", ""), NoArgs, "none")

NoObservation == {"<unset>"}

NoFn == [op |-> "none"]

NotAsked == "<not asked>"

----------------------------------------------------------------------------
(* Memory *)

Msg(role, content) == [role |-> role, content |-> content]

\* mutant: the message is put in front
add_message_Prepend(history, role, content) == <<Msg(role, content)>> \o history

\* Memory.add_message
add_message(history, role, content) == Append(history, Msg(role, content))

\* mutant: only the latest two messages are handed out
get_history_LastTwo(history) == SubSeq(history, Len(history) - 1, Len(history))

\* Memory.get_history: the list itself
get_history(history) == history

\* no request made yet
NoRequest == <<>>

\* json.dumps(action): the probe's action or one the LLM proposed
Dumps(a) == IF a = ProbeAction THEN "probe_action" ELSE "action"

----------------------------------------------------------------------------
(* AgentLoop: run_agent *)

Init ==
    /\ pc = "for"
    /\ i = 0
    /\ memory = add_message(add_message(<<>>, "system", "system_prompt"), "user", "goal")
    /\ action = NoAction
    /\ criticism = None
    /\ user_response = NotAsked
    /\ observation = NoObservation
    /\ actions_taken = 0
    /\ calls = <<>>
    /\ learned = <<>>
    /\ exit = "none"
    /\ reason = ""
    /\ budget = MaxDeviations
    /\ fn = NoFn
    /\ request = NoRequest

\* run_agent returns or an exception leaves it
Leave(how) ==
    /\ pc' = "done"
    /\ exit' = how

\* mutant: the range is one iteration too long
ForLoop_OffByOne ==
    /\ pc = "for"
    /\ IF i <= MAX_ITERATIONS
       THEN /\ pc' = "think"
            /\ UNCHANGED <<learned, exit>>
       ELSE /\ learned' = Append(learned, learn_from_interaction(actions_taken, "str", FALSE))
            /\ Leave("cap_exhausted")
    /\ UNCHANGED <<i, memory, action, criticism, user_response, observation,
                   actions_taken, calls, reason, budget, fn, request>>

\* mutant: the else clause makes no learning call
ForLoop_NoLearning ==
    /\ pc = "for"
    /\ IF i < MAX_ITERATIONS
       THEN /\ pc' = "think"
            /\ UNCHANGED <<learned, exit>>
       ELSE /\ learned' = learned
            /\ Leave("cap_exhausted")
    /\ UNCHANGED <<i, memory, action, criticism, user_response, observation,
                   actions_taken, calls, reason, budget, fn, request>>

\* `for i in range(MAX_ITERATIONS)`: the next iteration, or the else clause
\* when the range is exhausted
ForLoop ==
    /\ pc = "for"
    /\ IF i < MAX_ITERATIONS
       THEN /\ pc' = "think"
            /\ UNCHANGED <<learned, exit>>
       ELSE /\ learned' = Append(learned, learn_from_interaction(actions_taken, "str", FALSE))
            /\ Leave("cap_exhausted")
    /\ UNCHANGED <<i, memory, action, criticism, user_response, observation,
                   actions_taken, calls, reason, budget, fn, request>>

\* mutant: the corrective message is added as a user message
ThinkParseFailure_AsUser ==
    /\ pc = "think"
    /\ budget > 0
    /\ budget' = budget - 1
    /\ request' = get_history(memory)
    /\ memory' = add_message(memory, "user", "invalid_json")
    /\ UNCHANGED <<pc, i, action, criticism, user_response, observation,
                   actions_taken, calls, learned, exit, reason, fn>>

\* mutant: a reply that does not parse uses up the iteration
ThinkParseFailure_ConsumesIteration ==
    /\ pc = "think"
    /\ budget > 0
    /\ budget' = budget - 1
    /\ request' = get_history(memory)
    /\ memory' = add_message(memory, "assistant", "invalid_json")
    /\ pc' = "for"
    /\ i' = i + 1
    /\ UNCHANGED <<action, criticism, user_response, observation,
                   actions_taken, calls, learned, exit, reason, fn>>

\* get_next_action: the reply does not parse; a corrective message is added
\* and the request is made again
ThinkParseFailure ==
    /\ pc = "think"
    /\ budget > 0
    /\ budget' = budget - 1
    /\ request' = get_history(memory)
    /\ memory' = add_message(memory, "assistant", "invalid_json")
    /\ UNCHANGED <<pc, i, action, criticism, user_response, observation,
                   actions_taken, calls, learned, exit, reason, fn>>

\* mutant: only the tools of the plan are taken from the LLM
Think_FollowsPlan ==
    /\ pc = "think"
    /\ \E a \in LLMActions :
        /\ a.tool.name \in {fn.smart_plan[k].tool : k \in 1..Len(fn.smart_plan)}
        /\ IsCriticism(criticize_tool_call(a)) /\ ~IsEmpty(a) => budget > 0
        /\ action' = a
    /\ request' = get_history(memory)
    /\ pc' = "validate"
    /\ UNCHANGED <<i, memory, criticism, user_response, observation, actions_taken,
                   calls, learned, exit, reason, budget, fn>>

\* mutant: no reply ever parses, and the failures leave no trace
Think_NeverParses ==
    /\ pc = "think"
    /\ UNCHANGED vars

\* get_next_action returns the parsed reply
Think ==
    /\ pc = "think"
    /\ \E a \in LLMActions :
        /\ IsCriticism(criticize_tool_call(a)) /\ ~IsEmpty(a) => budget > 0
        /\ action' = a
    /\ request' = get_history(memory)
    /\ pc' = "validate"
    /\ UNCHANGED <<i, memory, criticism, user_response, observation, actions_taken,
                   calls, learned, exit, reason, budget, fn>>

\* mutant: `continue` starts the same iteration again
NextIteration_NoAdvance ==
    /\ i' = i
    /\ pc' = "for"
    /\ action' = NoAction
    /\ observation' = NoObservation
    /\ user_response' = NotAsked
    /\ calls' = <<>>

\* `continue`, and the end of the loop body. The locals of the iteration are
\* dead from here on (each is assigned again before it is read), so the model
\* forgets them.
NextIteration ==
    /\ i' = i + 1
    /\ pc' = "for"
    /\ action' = NoAction
    /\ observation' = NoObservation
    /\ user_response' = NotAsked
    /\ calls' = <<>>

\* the terminal check: display the response, record the success, break
Finish ==
    IF action.args.kind # "map"
    THEN /\ Leave("exception")                \* action["args"]["response"]
         /\ UNCHANGED learned
    ELSE LET call == learn_from_interaction(actions_taken, action.args.response, TRUE)
         IN  /\ learned' = Append(learned, call)
             /\ Leave(IF call.raised THEN "exception" ELSE "finish")

\* from the emptiness test to the allow-list test
Validate ==
    /\ pc = "validate"
    /\ IF IsEmpty(action)
       THEN /\ Leave("no_action")
            /\ UNCHANGED <<i, memory, action, criticism, user_response, observation,
                           calls, learned, budget>>
       ELSE LET c == criticize_tool_call(action)
            IN  IF c.kind = "RAISE"
                THEN /\ Leave("exception")
                     /\ UNCHANGED <<i, memory, action, criticism, user_response,
                                    observation, calls, learned, budget>>
                ELSE IF c # None
                THEN /\ memory' = add_message(
                            add_message(memory, "assistant", Dumps(action)),
                            "user", "criticism")
                     /\ budget' = budget - 1
                     /\ criticism' = c
                     /\ NextIteration
                     /\ UNCHANGED <<learned, exit>>
                ELSE /\ criticism' = c
                     /\ UNCHANGED <<action, user_response, observation, calls>>
                     /\ IF action.tool.name = "finish"
                        THEN /\ Finish
                             /\ UNCHANGED <<i, memory, budget>>
                        ELSE /\ pc' = IF action.tool.name \in auto_execute_tools
                                      THEN "act" ELSE "confirm"
                             /\ UNCHANGED <<i, memory, learned, exit, budget>>
    /\ UNCHANGED <<actions_taken, reason, fn, request>>

\* mutant: only the answer 'n' cancels the action
Confirm_OnlyNoCancels ==
    /\ pc = "confirm"
    /\ \E answer \in UserResponses :
        /\ user_response' = answer
        /\ IF Lower(answer) = "n"
           THEN Leave("user_abort")
           ELSE pc' = "act" /\ UNCHANGED exit
    /\ UNCHANGED <<i, memory, action, criticism, observation, actions_taken,
                   calls, learned, reason, budget, fn, request>>

\* mutant: a cancelled action is recorded as a failed interaction
Confirm_AbortRecordsFailure ==
    /\ pc = "confirm"
    /\ \E answer \in UserResponses :
        /\ user_response' = answer
        /\ IF Lower(answer) # "y"
           THEN /\ Leave("user_abort")
                /\ learned' = Append(learned, learn_from_interaction(actions_taken, "str", FALSE))
           ELSE pc' = "act" /\ UNCHANGED <<exit, learned>>
    /\ UNCHANGED <<i, memory, action, criticism, observation, actions_taken,
                   calls, reason, budget, fn, request>>

\* get_user_input(...).lower() != 'y' cancels the action
Confirm ==
    /\ pc = "confirm"
    /\ \E answer \in UserResponses :
        /\ user_response' = answer
        /\ IF Lower(answer) # "y"
           THEN Leave("user_abort")
           ELSE pc' = "act" /\ UNCHANGED exit
    /\ UNCHANGED <<i, memory, action, criticism, observation, actions_taken,
                   calls, learned, reason, budget, fn, request>>

Matches(text) == {"Error: File", "not found"} \subseteq text

\* one call of execute_tool: the tool, what iterating its arguments yields,
\* whose action it is, the user's answer it rests on, and what it returned
Call(a, by, result) ==
    [tool |-> a.tool.name, keys |-> Iter(a.args), by |-> by,
     response |-> user_response, result |-> result]

\* observation = execute_tool(action["tool"], action["args"]), then
\* actions_taken.append(action)
Execute ==
    /\ pc = "act"
    /\ IF action.args.kind = "absent"
       THEN /\ Leave("exception")             \* action["args"]
            /\ UNCHANGED <<observation, actions_taken, calls, budget>>
       ELSE \E body \in OutcomesOf(action.tool) :
            LET r == execute_tool(action.tool, action.args, body)
            IN  IF r.kind = "RAISE"
                THEN /\ Leave("exception")
                     /\ UNCHANGED <<observation, actions_taken, calls, budget>>
                ELSE /\ Matches(r.text) => budget > 0
                     /\ observation' = r.text
                     /\ actions_taken' = actions_taken + 1
                     /\ calls' = Append(calls, Call(action, "llm", r.text))
                     /\ budget' = IF Matches(r.text) THEN budget - 1 ELSE budget
                     /\ pc' = "recover"
                     /\ UNCHANGED exit
    /\ user_response' = NotAsked
    /\ UNCHANGED <<i, memory, action, criticism, learned, reason, fn, request>>

\* mutant: the failed action and its observation are not recorded
Recover_NoRecord ==
    /\ pc = "recover"
    /\ IF Matches(observation)
       THEN \E body \in ProbeOutcomes :
            /\ memory' = memory
            /\ action' = ProbeAction
            /\ observation' = execute_tool(ProbeAction.tool, ProbeAction.args, body).text
            /\ calls' = Append(calls, Call(ProbeAction, "probe", observation'))
       ELSE UNCHANGED <<memory, action, observation, calls>>
    /\ pc' = "decide"
    /\ UNCHANGED <<i, criticism, user_response, actions_taken, learned, exit,
                   reason, budget, fn, request>>

\* mutant: the probe's result is examined for the pattern again
Recover_Again ==
    /\ pc = "recover"
    /\ IF Matches(observation)
       THEN \E body \in ProbeOutcomes :
            /\ memory' = add_message(
                    add_message(memory, "assistant", Dumps(action)),
                    "user", "observation_file_not_found")
            /\ action' = ProbeAction
            /\ observation' = execute_tool(ProbeAction.tool, ProbeAction.args, body).text
            /\ calls' = Append(calls, Call(ProbeAction, "probe", observation'))
            /\ pc' = IF Matches(observation') THEN "recover" ELSE "decide"
       ELSE /\ pc' = "decide"
            /\ UNCHANGED <<memory, action, observation, calls>>
    /\ UNCHANGED <<i, criticism, user_response, actions_taken, learned, exit,
                   reason, budget, fn, request>>

\* the file-not-found branch: two messages, then the probe replaces the
\* action and the observation
Recover ==
    /\ pc = "recover"
    /\ IF Matches(observation)
       THEN \E body \in ProbeOutcomes :
            /\ memory' = add_message(
                    add_message(memory, "assistant", Dumps(action)),
                    "user", "observation_file_not_found")
            /\ action' = ProbeAction
            /\ observation' = execute_tool(ProbeAction.tool, ProbeAction.args, body).text
            /\ calls' = Append(calls, Call(ProbeAction, "probe", observation'))
       ELSE UNCHANGED <<memory, action, observation, calls>>
    /\ pc' = "decide"
    /\ UNCHANGED <<i, criticism, user_response, actions_taken, learned, exit,
                   reason, budget, fn, request>>

\* mutant: the two messages are appended before the policy is consulted
Decide_AppendsFirst ==
    /\ pc = "decide"
    /\ memory' = add_message(
            add_message(memory, "assistant", Dumps(action)),
            "user", "observation")
    /\ LET d == should_continue(observation, i, MAX_ITERATIONS)
       IN  IF ~d.continue
           THEN /\ reason' = d.reason
                /\ Leave("policy_stop")
                /\ UNCHANGED <<i, action, criticism, user_response,
                               observation, calls>>
           ELSE /\ NextIteration
                /\ UNCHANGED <<criticism, reason, exit>>
    /\ UNCHANGED <<actions_taken, learned, budget, fn, request>>

\* mutant: the policy is given the number of the iteration, counted from one
Decide_OneBased ==
    /\ pc = "decide"
    /\ LET d == should_continue(observation, i + 1, MAX_ITERATIONS)
       IN  IF ~d.continue
           THEN /\ reason' = d.reason
                /\ Leave("policy_stop")
                /\ UNCHANGED <<i, memory, action, criticism, user_response,
                               observation, calls>>
           ELSE /\ memory' = add_message(
                       add_message(memory, "assistant", Dumps(action)),
                       "user", "observation")
                /\ NextIteration
                /\ UNCHANGED <<criticism, reason, exit>>
    /\ UNCHANGED <<actions_taken, learned, budget, fn, request>>

\* mutant: the policy judges what the LLM's own tool call returned
Decide_OnOriginal ==
    /\ pc = "decide"
    /\ LET d == should_continue(calls[1].result, i, MAX_ITERATIONS)
       IN  IF ~d.continue
           THEN /\ reason' = d.reason
                /\ Leave("policy_stop")
                /\ UNCHANGED <<i, memory, action, criticism, user_response,
                               observation, calls>>
           ELSE /\ memory' = add_message(
                       add_message(memory, "assistant", Dumps(action)),
                       "user", "observation")
                /\ NextIteration
                /\ UNCHANGED <<criticism, reason, exit>>
    /\ UNCHANGED <<actions_taken, learned, budget, fn, request>>

\* should_continue, then the two messages of the iteration
Decide ==
    /\ pc = "decide"
    /\ LET d == should_continue(observation, i, MAX_ITERATIONS)
       IN  IF ~d.continue
           THEN /\ reason' = d.reason
                /\ Leave("policy_stop")
                /\ UNCHANGED <<i, memory, action, criticism, user_response,
                               observation, calls>>
           ELSE /\ memory' = add_message(
                       add_message(memory, "assistant", Dumps(action)),
                       "user", "observation")
                /\ NextIteration
                /\ UNCHANGED <<criticism, reason, exit>>
    /\ UNCHANGED <<actions_taken, learned, budget, fn, request>>

Next ==
    \/ ForLoop
    \/ ThinkParseFailure
    \/ Think
    \/ Validate
    \/ Confirm
    \/ Execute
    \/ Recover
    \/ Decide

Spec == Init /\ [][Next]_vars

\* every request to the LLM is answered, in the end by a reply that parses
\* (no fairness for ThinkParseFailure), and every tool call and every
\* confirmation prompt returns
Fairness ==
    /\ WF_vars(ForLoop)
    /\ WF_vars(Think)
    /\ WF_vars(Validate)
    /\ WF_vars(Confirm)
    /\ WF_vars(Execute)
    /\ WF_vars(Recover)
    /\ WF_vars(Decide)

\* a run with one deviation fewer: the temporal check walks the whole graph
InitLive ==
    /\ pc = "for"
    /\ i = 0
    /\ memory = add_message(add_message(<<>>, "system", "system_prompt"), "user", "goal")
    /\ action = NoAction
    /\ criticism = None
    /\ user_response = NotAsked
    /\ observation = NoObservation
    /\ actions_taken = 0
    /\ calls = <<>>
    /\ learned = <<>>
    /\ exit = "none"
    /\ reason = ""
    /\ budget = MaxDeviations - 1
    /\ fn = NoFn
    /\ request = NoRequest

SpecLive == InitLive /\ [][Next]_vars /\ Fairness

----------------------------------------------------------------------------
(* main: the interactive mode runs run_agent for one goal after the other *)

\* what the user types at the goal prompt
MainGoals == {"goal", "exit"}

\* mutant: the Memory of the last goal is kept for the next one
main_KeepsMemory ==
    /\ pc = "done"
    /\ exit # "exception"
    /\ \E goal \in MainGoals :
        IF goal \in {"exit", "quit"}
        THEN /\ pc' = "goodbye"
             /\ UNCHANGED <<i, memory, action, criticism, user_response, observation,
                            actions_taken, calls, learned, exit, reason, request>>
        ELSE /\ pc' = "for"
             /\ i' = 0
             /\ memory' = memory
             /\ action' = NoAction
             /\ criticism' = None
             /\ user_response' = NotAsked
             /\ observation' = NoObservation
             /\ actions_taken' = 0
             /\ calls' = <<>>
             /\ learned' = <<>>
             /\ exit' = "none"
             /\ reason' = ""
             /\ request' = NoRequest
    /\ UNCHANGED <<budget, fn>>

\* the `while True` of main once run_agent has returned: the next goal is
\* read, and unless it is exit or quit, run_agent is entered again with a new
\* Memory and a new AgentIntelligence; an exception that left run_agent ends
\* the process
main ==
    /\ pc = "done"
    /\ exit # "exception"
    /\ \E goal \in MainGoals :
        IF goal \in {"exit", "quit"}
        THEN /\ pc' = "goodbye"
             /\ UNCHANGED <<i, memory, action, criticism, user_response, observation,
                            actions_taken, calls, learned, exit, reason, request>>
        ELSE /\ pc' = "for"
             /\ i' = 0
             /\ memory' = add_message(add_message(<<>>, "system", "system_prompt"),
                                      "user", "goal")
             /\ action' = NoAction
             /\ criticism' = None
             /\ user_response' = NotAsked
             /\ observation' = NoObservation
             /\ actions_taken' = 0
             /\ calls' = <<>>
             /\ learned' = <<>>
             /\ exit' = "none"
             /\ reason' = ""
             /\ request' = NoRequest
    /\ UNCHANGED <<budget, fn>>

NextMain ==
    \/ Next
    \/ main

SpecMain == Init /\ [][NextMain]_vars

----------------------------------------------------------------------------
(* execute_tool called on its own, for every tool value and argument value *)

ExecTools ==
    {Named(t) : t \in ToolNames}
        \cup {Named("finish"), Named("delete_file"), Tool("num", "5"), Tool("list", "")}

ExecArgs ==
    { Map(<<>>), Map(<<"path">>), Map(<<"path", "content">>), Map(<<"command">>),
      Map(<<"file_path">>), Map(<<"paths">>), Map(<<"path", "encoding">>),
      NullArgs, List(<<"path">>), Str("") }

Pending == [kind |-> "pending"]

InitExec ==
    /\ pc = "idle"
    /\ i = 0
    /\ memory = <<>>
    /\ action = NoAction
    /\ criticism = None
    /\ user_response = NotAsked
    /\ observation = NoObservation
    /\ actions_taken = 0
    /\ calls = <<>>
    /\ learned = <<>>
    /\ exit = "none"
    /\ reason = ""
    /\ budget = 0
    /\ request = NoRequest
    /\ \E t \in ExecTools, v \in ExecArgs, b \in BodyOutcomes :
        fn = [op |-> "execute_tool", tool |-> t, args |-> v, body |-> b,
              result |-> Pending]

CallExecuteTool ==
    /\ fn.op = "execute_tool"
    /\ fn.result = Pending
    /\ fn' = [fn EXCEPT !.result = execute_tool(fn.tool, fn.args, fn.body)]
    /\ UNCHANGED <<pc, i, memory, action, criticism, user_response, observation,
                   actions_taken, calls, learned, exit, reason, budget, request>>

NextExec == CallExecuteTool

SpecExec == InitExec /\ [][NextExec]_vars

----------------------------------------------------------------------------
(* criticize_tool_call called on its own, for every tool value and argument *)
(* value                                                                    *)

NumArgs == Args("num", <<>>, "", "none")

ValTools == ExecTools \cup {Tool("absent", ""), Tool("null", ""), Named("")}

ValArgs ==
    ExecArgs \cup
    { NoArgs, NumArgs, MapResp("str"), Map(<<"content">>), Map(<<"mode">>),
      Map(<<"content", "path">>), Map(<<"path", "mode", "encoding">>),
      Map(<<"mode", "path">>), Map(<<"command", "working_dir">>),
      List(<<"response">>), Str("response"), Str("path") }

InitValidate ==
    /\ pc = "idle"
    /\ i = 0
    /\ memory = <<>>
    /\ action = NoAction
    /\ criticism = None
    /\ user_response = NotAsked
    /\ observation = NoObservation
    /\ actions_taken = 0
    /\ calls = <<>>
    /\ learned = <<>>
    /\ exit = "none"
    /\ reason = ""
    /\ budget = 0
    /\ request = NoRequest
    /\ \E t \in ValTools, v \in ValArgs :
        fn = [op |-> "criticize_tool_call", action |-> Act(t, v, "dict"),
              result |-> Pending]

CallCriticizeToolCall ==
    /\ fn.op = "criticize_tool_call"
    /\ fn.result = Pending
    /\ fn' = [fn EXCEPT !.result = criticize_tool_call(fn.action)]
    /\ UNCHANGED <<pc, i, memory, action, criticism, user_response, observation,
                   actions_taken, calls, learned, exit, reason, budget, request>>

NextValidate == CallCriticizeToolCall

SpecValidate == InitValidate /\ [][NextValidate]_vars

----------------------------------------------------------------------------
(* run_agent with an LLM whose every action validate() rejects *)

InitInvalid ==
    /\ pc = "for"
    /\ i = 0
    /\ memory = add_message(add_message(<<>>, "system", "system_prompt"), "user", "goal")
    /\ action = NoAction
    /\ criticism = None
    /\ user_response = NotAsked
    /\ observation = NoObservation
    /\ actions_taken = 0
    /\ calls = <<>>
    /\ learned = <<>>
    /\ exit = "none"
    /\ reason = ""
    /\ budget = MAX_ITERATIONS
    /\ fn = NoFn
    /\ request = NoRequest

ThinkInvalid ==
    /\ Think
    /\ ~IsEmpty(action')
    /\ IsCriticism(criticize_tool_call(action'))

NextInvalid ==
    \/ ForLoop
    \/ ThinkInvalid
    \/ Validate

SpecInvalid == InitInvalid /\ [][NextInvalid]_vars

----------------------------------------------------------------------------
(* AgentIntelligence on its own: should_continue evaluated between calls of *)
(* learn_from_interaction                                                   *)

\* learn_from_interaction calls per AgentIntelligence
MaxLearnCalls == 1

PolicyPhrases ==
    { "Successfully wrote to 'README.md'", "successfully wrote", "found", "files",
      "matching", "file analysis", "Error executing tool", "no files found" }

PolicyObservations == {Text(P) : P \in SUBSET PolicyPhrases}

OtherObservations == {Text({"Error executing tool"}), Text({"analyzing"})}

PolicyIterations == 0..(MAX_ITERATIONS + 1)

PolicyCaps == {0, 4, MAX_ITERATIONS}

NotEvaluated == [continue |-> FALSE, reason |-> "<not evaluated>"]

InitPolicy ==
    /\ pc = "idle"
    /\ i = 0
    /\ memory = add_message(add_message(<<>>, "system", "system_prompt"), "user", "goal")
    /\ action = NoAction
    /\ criticism = None
    /\ user_response = NotAsked
    /\ observation = NoObservation
    /\ actions_taken = 0
    /\ calls = <<>>
    /\ learned = <<>>
    /\ exit = "none"
    /\ reason = ""
    /\ budget = 0
    /\ request = NoRequest
    /\ \E o \in PolicyObservations, it \in PolicyIterations, cap \in PolicyCaps :
        fn = [op |-> "should_continue", observation |-> o, iteration |-> it,
              max_iterations |-> cap, results |-> {}, other |-> NotEvaluated]

\* should_continue on the inputs under study; the results of all such calls
\* are kept
CallShouldContinue ==
    /\ fn.op = "should_continue"
    /\ fn' = [fn EXCEPT !.results =
                @ \cup {should_continue(fn.observation, fn.iteration, fn.max_iterations)}]
    /\ UNCHANGED <<pc, i, memory, action, criticism, user_response, observation,
                   actions_taken, calls, learned, exit, reason, budget, request>>

\* should_continue on another observation
CallShouldContinueOther ==
    /\ fn.op = "should_continue"
    /\ \E o \in OtherObservations :
        fn' = [fn EXCEPT !.other = should_continue(o, fn.iteration, fn.max_iterations)]
    /\ UNCHANGED <<pc, i, memory, action, criticism, user_response, observation,
                   actions_taken, calls, learned, exit, reason, budget, request>>

\* learn_from_interaction on the same AgentIntelligence
CallLearnFromInteraction ==
    /\ fn.op = "should_continue"
    /\ Len(learned) < MaxLearnCalls
    /\ \E call \in { learn_from_interaction(0, "str", FALSE),
                     learn_from_interaction(1, "str_project", TRUE) } :
        learned' = Append(learned, call)
    /\ UNCHANGED <<pc, i, memory, action, criticism, user_response, observation,
                   actions_taken, calls, exit, reason, budget, fn, request>>

NextPolicy ==
    \/ CallShouldContinue
    \/ CallShouldContinueOther
    \/ CallLearnFromInteraction

SpecPolicy == InitPolicy /\ [][NextPolicy]_vars

----------------------------------------------------------------------------
(* PlanGenerator: analyze_user_intent, extract_key_terms and                *)
(* generate_smart_plan. A text is the sequence of its blank-separated       *)
(* tokens; a keyword occurs in a text when it occurs in one of its tokens.  *)

\* `keyword in token` for the lower-cased tokens of the model: equality, and
\* the proper substrings listed
Occurs(keyword, token) ==
    \/ keyword = token
    \/ <<keyword, token>> \in
            { <<"find", "2find">>, <<"file", "files">>, <<"read", "readme">> }

\* text.lower()
LowerText(text) == [k \in 1..Len(text) |-> Lower(text[k])]

\* `keyword in text_lower`
Contains(text_lower, keyword) ==
    \E k \in 1..Len(text_lower) : Occurs(keyword, text_lower[k])

\* any(word in goal_lower for word in words)
AnyOf(words, goal_lower) == \E word \in words : Contains(goal_lower, word)

\* mutant: the analysis keywords are tested before the search keywords
IntentType_AnalysisFirst(goal_lower) ==
    IF AnyOf({"analyze", "understand", "explain", "what", "how"}, goal_lower)
    THEN "analysis"
    ELSE IF AnyOf({"find", "search", "locate", "where", "which"}, goal_lower)
    THEN "search"
    ELSE IF AnyOf({"create", "write", "add", "implement", "build"}, goal_lower)
    THEN "creation"
    ELSE IF AnyOf({"fix", "debug", "error", "problem", "issue"}, goal_lower)
    THEN "debugging"
    ELSE IF AnyOf({"improve", "optimize", "refactor", "better"}, goal_lower)
    THEN "improvement"
    ELSE "unknown"

\* the if/elif chain of the intent classification
IntentType(goal_lower) ==
    IF AnyOf({"find", "search", "locate", "where", "which"}, goal_lower)
    THEN "search"
    ELSE IF AnyOf({"analyze", "understand", "explain", "what", "how"}, goal_lower)
    THEN "analysis"
    ELSE IF AnyOf({"create", "write", "add", "implement", "build"}, goal_lower)
    THEN "creation"
    ELSE IF AnyOf({"fix", "debug", "error", "problem", "issue"}, goal_lower)
    THEN "debugging"
    ELSE IF AnyOf({"improve", "optimize", "refactor", "better"}, goal_lower)
    THEN "improvement"
    ELSE "unknown"

SuggestedTools(intent_type) ==
    CASE intent_type = "search" ->
            <<"get_project_overview", "explore_codebase", "find_code_patterns",
              "navigate_to_symbol">>
      [] intent_type = "analysis" ->
            <<"get_project_overview", "analyze_file", "get_code_flow",
              "get_file_dependencies">>
      [] intent_type = "creation" ->
            <<"get_project_overview", "analyze_file", "write_file",
              "execute_with_context">>
      [] intent_type = "debugging" ->
            <<"get_project_overview", "find_code_patterns", "analyze_file",
              "execute_with_context">>
      [] intent_type = "improvement" ->
            <<"get_project_overview", "analyze_file", "suggest_improvements",
              "get_project_health">>
      [] OTHER -> <<>>

\* confidence, in tenths
Confidence(intent_type) ==
    CASE intent_type \in {"search", "analysis", "debugging"} -> 8
      [] intent_type \in {"creation", "improvement"} -> 7
      [] OTHER -> 5

Complexity(goal_lower) ==
    IF AnyOf({"all", "entire", "everything", "complete", "comprehensive"}, goal_lower)
    THEN "high"
    ELSE IF AnyOf({"simple", "quick", "just", "only"}, goal_lower)
    THEN "low"
    ELSE "medium"

Approach(intent_type) ==
    CASE intent_type = "search" -> "pattern_matching"
      [] intent_type = "analysis" -> "deep_dive"
      [] intent_type = "creation" -> "iterative_build"
      [] intent_type = "debugging" -> "systematic_investigation"
      [] intent_type = "improvement" -> "assessment_first"
      [] OTHER -> "exploratory"

analyze_user_intent(user_goal) ==
    LET goal_lower == LowerText(user_goal)
        intent_type == IntentType(goal_lower)
    IN  [ intent_type     |-> intent_type,
          complexity      |-> Complexity(goal_lower),
          suggested_tools |-> SuggestedTools(intent_type),
          approach        |-> Approach(intent_type),
          confidence      |-> Confidence(intent_type) ]

stop_words ==
    { "the", "a", "an", "and", "or", "but", "in", "on", "at", "to", "for",
      "of", "with", "by", "is", "are", "was", "were", "be", "been", "have",
      "has", "had", "do", "does", "did", "will", "would", "could", "should",
      "this", "that", "these", "those", "i", "you", "he", "she", "it", "we", "they" }

\* re.findall(r'\b[a-zA-Z_][a-zA-Z0-9_]*\b', token): the token itself, and
\* nothing for a token that starts with a digit
WordsOf(token) == IF token = "2find" THEN {} ELSE {token}

\* len(word) > 2, for the words of the model
LongerThanTwo(word) == word \notin {"a", "i", "it", "md", "go"}

\* extract_key_terms up to the order of its result: set(key_terms)
extract_key_terms(text) ==
    {word \in UNION {WordsOf(LowerText(text)[k]) : k \in 1..Len(text)} :
        word \notin stop_words /\ LongerThanTwo(word)}

\* list(set(...)): the order of a set of strings is that of their hashes,
\* which differ from one process to the next (hash randomisation); every
\* order of the set can be the list
Enumerations(S) ==
    {q \in [1..Cardinality(S) -> S] : \A x \in S : \E k \in 1..Cardinality(S) : q[k] = x}

\* a step of the plan; args is the list of its (key, value) pairs, empty
\* when the step has no "args"; a value and a reason are the list of the parts
\* they are joined from
Step(tool, args, reas, priority) ==
    [tool |-> tool, args |-> args, reason |-> reas, priority |-> priority]

Arg(key, value) == [key |-> key, value |-> value]

\* mutant: the write step is added for every goal that contains "write"
OpeningSteps_WriteAlone(goal_lower) ==
    IF Contains(goal_lower, "read") /\ Contains(goal_lower, "file")
    THEN << Step("explore_codebase",
                 <<Arg("pattern", <<"**/*.py">>), Arg("max_files", <<"50">>)>>,
                 <<"Find all Python files to read and analyze">>, "high"),
            Step("read_multiple_files", <<>>,
                 <<"Read all relevant files to understand the project">>, "high") >>
         \o (IF Contains(goal_lower, "write")
             THEN << Step("write_file", <<>>,
                          <<"Write comprehensive description to README.md">>, "high") >>
             ELSE <<>>)
    ELSE << Step("get_project_overview", <<>>,
                 <<"Understand project structure and context">>, "high") >>

\* the first branch of generate_smart_plan
OpeningSteps(goal_lower) ==
    IF Contains(goal_lower, "read") /\ Contains(goal_lower, "file")
    THEN << Step("explore_codebase",
                 <<Arg("pattern", <<"**/*.py">>), Arg("max_files", <<"50">>)>>,
                 <<"Find all Python files to read and analyze">>, "high"),
            Step("read_multiple_files", <<>>,
                 <<"Read all relevant files to understand the project">>, "high") >>
         \o (IF Contains(goal_lower, "write") /\ Contains(goal_lower, "readme")
             THEN << Step("write_file", <<>>,
                          <<"Write comprehensive description to README.md">>, "high") >>
             ELSE <<>>)
    ELSE << Step("get_project_overview", <<>>,
                 <<"Understand project structure and context">>, "high") >>

\* the second branch of generate_smart_plan; key_terms is a list
IntentSteps(intent_type, key_terms) ==
    CASE intent_type = "search" ->
            (IF key_terms # <<>>
             THEN << Step("find_code_patterns", <<Arg("pattern", key_terms)>>,
                          <<"Search for patterns related to:">> \o key_terms, "high") >>
             ELSE <<>>)
            \o << Step("explore_codebase", <<>>,
                       <<"Explore codebase structure to find relevant files">>, "medium") >>
      [] intent_type = "analysis" ->
            << Step("explore_codebase",
                    <<Arg("file_type", <<"py">>), Arg("max_files", <<"10">>)>>,
                    <<"Find Python files to analyze">>, "high"),
               Step("analyze_file", <<>>,
                    <<"Analyze key files for structure and functionality">>, "high") >>
      [] intent_type = "creation" ->
            << Step("get_project_health", <<>>,
                    <<"Assess project health before making changes">>, "medium"),
               Step("explore_codebase", <<Arg("file_type", <<"py">>)>>,
                    <<"Understand existing code structure">>, "high") >>
      [] intent_type = "debugging" ->
            << Step("find_code_patterns",
                    <<Arg("pattern", <<"error|exception|traceback|debug">>)>>,
                    <<"Look for error-related code patterns">>, "high"),
               Step("get_project_health", <<>>,
                    <<"Check overall project health for issues">>, "medium") >>
      [] intent_type = "improvement" ->
            << Step("get_project_health", <<>>,
                    <<"Get comprehensive health assessment">>, "high"),
               Step("suggest_improvements", <<>>,
                    <<"Get specific improvement suggestions">>, "high") >>
      [] OTHER -> <<>>

\* mutant: the last step of the plan is left out
generate_smart_plan_DropsLastStep(user_goal, key_terms) ==
    LET plan == OpeningSteps(LowerText(user_goal))
                    \o IntentSteps(analyze_user_intent(user_goal).intent_type, key_terms)
    IN  SubSeq(plan, 1, Len(plan) - 1)

\* generate_smart_plan; key_terms is the list that its call of
\* extract_key_terms returned
generate_smart_plan(user_goal, key_terms) ==
    OpeningSteps(LowerText(user_goal))
        \o IntentSteps(analyze_user_intent(user_goal).intent_type, key_terms)

----------------------------------------------------------------------------
(* analyze_user_intent and generate_smart_plan called on their own *)

\* tokens of a goal
MaxGoalLen == 2

Vocabulary ==
    { "Find", "2find", "what", "write", "fix", "improve", "read", "files",
      "README", "the", "parse_config", "all" }

SampleGoals ==
    { <<"find", "the", "function", "named", "parse_config">>,
      <<"Write", "a", "README", "file">>,
      <<"read", "all", "files">>,
      <<"read", "and", "write", "files">>,
      <<"fix", "the", "README">> }

Goals ==
    SampleGoals \cup UNION {[1..n -> Vocabulary] : n \in 0..MaxGoalLen}

NoIntent ==
    [ intent_type |-> "<not analysed>", complexity |-> "", suggested_tools |-> <<>>,
      approach |-> "", confidence |-> 0 ]

NoPlan == <<>>

InitPlanner ==
    /\ pc = "idle"
    /\ i = 0
    /\ memory = <<>>
    /\ action = NoAction
    /\ criticism = None
    /\ user_response = NotAsked
    /\ observation = NoObservation
    /\ actions_taken = 0
    /\ calls = <<>>
    /\ learned = <<>>
    /\ exit = "none"
    /\ reason = ""
    /\ budget = 0
    /\ request = NoRequest
    /\ \E g \in Goals :
        fn = [op |-> "generate_smart_plan", user_goal |-> g, intent |-> NoIntent,
              first |-> NoPlan, second |-> NoPlan]

CallAnalyzeUserIntent ==
    /\ fn.op = "generate_smart_plan"
    /\ fn.intent = NoIntent
    /\ fn' = [fn EXCEPT !.intent = analyze_user_intent(fn.user_goal)]
    /\ UNCHANGED <<pc, i, memory, action, criticism, user_response, observation,
                   actions_taken, calls, learned, exit, reason, budget, request>>

\* two calls of generate_smart_plan on the same goal
CallGenerateSmartPlan ==
    /\ fn.op = "generate_smart_plan"
    /\ fn.second = NoPlan
    /\ \E key_terms \in Enumerations(extract_key_terms(fn.user_goal)) :
        LET plan == generate_smart_plan(fn.user_goal, key_terms)
        IN  fn' = IF fn.first = NoPlan
                  THEN [fn EXCEPT !.first = plan]
                  ELSE [fn EXCEPT !.second = plan]
    /\ UNCHANGED <<pc, i, memory, action, criticism, user_response, observation,
                   actions_taken, calls, learned, exit, reason, budget, request>>

NextPlanner ==
    \/ CallAnalyzeUserIntent
    \/ CallGenerateSmartPlan

SpecPlanner == InitPlanner /\ [][NextPlanner]_vars

----------------------------------------------------------------------------
(* run_agent with the plan it generates for its goal *)

PlanGoals == { <<"Write", "a", "README", "file">>, <<"fix", "the", "README">> }

\* run_agent up to the loop: the plan is generated and only its length is
\* printed; Memory is seeded with the system prompt and the goal
InitPlan ==
    /\ pc = "for"
    /\ i = 0
    /\ memory = add_message(add_message(<<>>, "system", "system_prompt"), "user", "goal")
    /\ action = NoAction
    /\ criticism = None
    /\ user_response = NotAsked
    /\ observation = NoObservation
    /\ actions_taken = 0
    /\ calls = <<>>
    /\ learned = <<>>
    /\ exit = "none"
    /\ reason = ""
    /\ budget = MaxDeviations - 1
    /\ request = NoRequest
    /\ \E g \in PlanGoals : \E key_terms \in Enumerations(extract_key_terms(g)) :
        fn = [op |-> "run_agent", smart_plan |-> generate_smart_plan(g, key_terms)]

SpecPlan == InitPlan /\ [][Next]_vars

----------------------------------------------------------------------------
(* Properties *)

\* an affirmative answer at the confirmation prompt
Affirmative(r) == r \in {"y", "Y"}

CallsBy(who) == {k \in 1..Len(calls) : calls[k].by = who}

Unlisted(k) == calls[k].tool \notin auto_execute_tools

\* C1 as stated: every execution of a tool outside the allow-list, the probe
\* of the file-not-found recovery included, rests on an affirmative answer of
\* the user given in the same iteration.
C1_EveryUnlistedCallConfirmed ==
    \A k \in 1..Len(calls) : Unlisted(k) => Affirmative(calls[k].response)

\* C1 amended: every execution of a tool outside the allow-list for an action
\* the LLM proposed rests on an affirmative answer given in the same iteration,
\* and no such action reaches the executor without one; the recovery probe is
\* the one exception: it is a call of execute_command, a tool outside the
\* allow-list, made without asking.
C1_ProposedUnlistedCallsConfirmed ==
    /\ \A k \in CallsBy("llm") : Unlisted(k) => Affirmative(calls[k].response)
    /\ pc = "act" /\ action.tool.name \notin auto_execute_tools
            => Affirmative(user_response)
    /\ \A k \in CallsBy("probe") :
            /\ k = 2
            /\ calls[k].tool = "execute_command"
            /\ Unlisted(k)
            /\ calls[k].response = NotAsked

C1_Witness ==
    /\ Len(calls) = 2
    /\ calls[1].by = "llm" /\ calls[1].tool = "execute_command"
    /\ Affirmative(calls[1].response)
    /\ calls[2].by = "probe"

\* C2: every mutating tool of the registry (write_file, execute_command,
\* execute_with_context) is outside the allow-list, so a call of it for an
\* action of the LLM rests on an affirmative answer of the user.
C2_MutatingToolsAreConfirmed ==
    \A k \in CallsBy("llm") :
        calls[k].tool \in MutatingTools =>
            /\ calls[k].tool \notin auto_execute_tools
            /\ Affirmative(calls[k].response)

FourExits == {"finish", "policy_stop", "user_abort", "cap_exhausted"}

\* C3 as stated: a run that has halted left the loop by finish, policy-stop,
\* user-abort or cap-exhausted (runs ended by an exception are set aside here:
\* they are C9's).
C3_OnlyFourExits ==
    pc = "done" /\ exit # "exception" => exit \in FourExits

C3_ExitState ==
    /\ i \in 0..MAX_ITERATIONS
    /\ (pc = "done") = (exit # "none")
    /\ exit \in FourExits \cup {"no_action", "exception", "none"}
    /\ exit = "cap_exhausted" => i = MAX_ITERATIONS
    /\ exit \in {"finish", "policy_stop", "user_abort", "no_action"} => i < MAX_ITERATIONS

\* C3 amended: a run that has halted left the loop by exactly one of finish,
\* policy-stop, user-abort, cap-exhausted, the empty-action abort (`if not
\* action: break`) or an exception leaving run_agent; the exit does not change
\* once taken; the iteration counter starts at 0, never decreases and never
\* exceeds the cap.
C3_SixExitsAndCounter ==
    /\ i = 0
    /\ []C3_ExitState
    /\ [][i' >= i /\ (exit # "none" => exit' = exit)]_vars

C3_Witness == pc = "done" /\ exit = "no_action" /\ i > 0

C4_State ==
    /\ \A a \in LLMActions : Falsy(a.tool) => IsCriticism(criticize_tool_call(a))
    /\ pc \in {"confirm", "act", "recover"} =>
            /\ criticism = None
            /\ criticize_tool_call(action) = None
    /\ CallsBy("llm") \subseteq {1}
    /\ CallsBy("llm") # {} => criticism = None

C4_Step ==
    pc = "validate" /\ Falsy(action.tool) =>
        /\ pc' \in {"for", "done"}
        /\ calls = <<>> /\ calls' = <<>>
        /\ actions_taken' = actions_taken

\* C4: validate() returns a criticism for every action without a `tool`, the
\* executor is not called in the iteration of such an action, and the executor
\* is called for an action of the LLM only after validate() returned no
\* criticism for that action.
C4_NoToolNoExecution == []C4_State /\ [][C4_Step]_vars

C4_Witness ==
    pc = "for" /\ criticism = Criticism("missing_tool", "") /\ calls = <<>> /\ i > 0

Given(v) == Range(Iter(v))

ValidAction(a) ==
    /\ a.tool.kind = "str"
    /\ \/ a.tool.name = "finish"
       \/ /\ a.tool.name \in ToolNames
          /\ Required(a.tool.name) \subseteq Given(GetArgs(a))
          /\ Given(GetArgs(a)) \subseteq Declared(a.tool.name)

Unsuccessful == learn_from_interaction(0, "str", FALSE)

TooManyErrors == "Too many errors encountered"

Readme(text) == {"successfully wrote", "readme.md"} \subseteq text

Processing(text) ==
    \/ {"found", "files", "matching"} \subseteq text
    \/ {"project analysis summary", "file analysis"} \cap text # {}

C8_State ==
    exit = "policy_stop" /\ reason = TooManyErrors =>
        i > 3 /\ "error" \in observation

C8_Step ==
    pc = "decide" /\ "error" \in observation /\ ~Readme(observation) =>
        /\ i <= 3 => pc' = "for" /\ i' = i + 1
        /\ i > 3 /\ Processing(observation) => pc' = "for" /\ i' = i + 1
        /\ i > 3 /\ ~Processing(observation) =>
                pc' = "done" /\ exit' = "policy_stop" /\ reason' = TooManyErrors

C9_NoExceptionEscapes == exit # "exception"

HasResponse(a) == a.args.kind = "map" /\ "response" \in Range(a.args.keys)

\* C10: validate() accepts a finish action exactly when args.response is
\* present, and returns a criticism when it is not.
C10_FinishAcceptedIffResponse ==
    pc = "validate" /\ action.tool = Named("finish") =>
        /\ (criticize_tool_call(action) = None) = HasResponse(action)
        /\ ~HasResponse(action) => IsCriticism(criticize_tool_call(action))

Last(s) == s[Len(s)]

C11_Step ==
    pc = "validate" /\ action.tool = Named("finish")
        /\ criticize_tool_call(action) = None =>
            /\ HasResponse(action)
            /\ pc' = "done" /\ exit' = "finish"
            /\ calls = <<>> /\ calls' = <<>>
            /\ actions_taken' = actions_taken
            /\ user_response' = NotAsked
            /\ Len(learned') = Len(learned) + 1
            /\ Last(learned').success

\* C11: a finish action that validate() accepts, at any iteration index, ends
\* the run in that iteration by the finish exit, with no tool executed and no
\* confirmation asked; args.response exists and is the final answer, and
\* learn_from_interaction is called exactly once, with success = True.
C11_ValidFinishEndsTheRunSuccessfully == [][C11_Step]_vars

C12_State ==
    exit = "user_abort" =>
        /\ ~Affirmative(user_response)
        /\ calls = <<>>
        /\ learned = <<>>
        /\ memory = request

C12_Step ==
    pc = "confirm" =>
        /\ calls = <<>> /\ calls' = <<>>
        /\ memory' = memory /\ memory = request
        /\ learned' = learned
        /\ actions_taken' = actions_taken
        /\ i' = i
        /\ IF Affirmative(user_response')
           THEN pc' = "act" /\ exit' = "none"
           ELSE pc' = "done" /\ exit' = "user_abort"

\* C12: an answer other than an affirmative one ('y' or 'Y') at the
\* confirmation prompt ends the run in that iteration: no tool is executed,
\* Memory is what it was when the action was requested, and
\* learn_from_interaction is not called.
C12_RefusalEndsTheRunSilently == []C12_State /\ [][C12_Step]_vars

C12_Witness ==
    exit = "user_abort" /\ user_response = "yes" /\ i > 0 /\ actions_taken > 0

----------------------------------------------------------------------------
(* Properties of criticize_tool_call called on its own *)

Validated == fn.op = "criticize_tool_call" /\ fn.result # Pending

Registered(t) == t.kind = "str" /\ t.name \in ToolNames

\* the checks of validate(), numbered in the order of the specification, that
\* an action violates: 1 missing tool, 2 finish without response, 3 tool not
\* registered, 4 required parameter not in args, 5 args key not declared. A
\* check on args that cannot be evaluated (args null or a number) counts as
\* violated.
Violated(a) ==
    LET v == GetArgs(a)
    IN  {n \in 1..5 :
            \/ n = 1 /\ Falsy(a.tool)
            \/ n = 2 /\ a.tool = Named("finish") /\ ~In("response", v)
            \/ n = 3 /\ a.tool # Named("finish") /\ ~Registered(a.tool)
            \/ n = 4 /\ Registered(a.tool)
                     /\ \E p \in Required(a.tool.name) : InRaises(v) \/ ~In(p, v)
            \/ n = 5 /\ Registered(a.tool)
                     /\ (InRaises(v) \/ ~(Given(v) \subseteq Declared(a.tool.name)))}

KindsOfCheck(n, v) ==
    CASE n = 1 -> {"missing_tool"}
      [] n = 2 -> {"missing_response"}
      [] n = 3 -> {"unknown_tool"}
      [] n = 4 -> IF InRaises(v) THEN {"unexpected_error"} ELSE {"missing_argument"}
      [] n = 5 -> IF InRaises(v) THEN {"unexpected_error"} ELSE {"unexpected_argument"}

\* C13: whenever validate() returns, it returns nothing for an action that
\* violates no check and otherwise exactly one criticism, that of the earliest
\* check the action violates in the order missing tool, finish, unregistered
\* tool, missing required parameter, undeclared key.
C13_EarliestViolatedCheckWins ==
    Validated /\ fn.result.kind # "RAISE" =>
        IF Violated(fn.action) = {}
        THEN fn.result = None
        ELSE /\ IsCriticism(fn.result)
             /\ fn.result.kind \in KindsOfCheck(Min(Violated(fn.action)), GetArgs(fn.action))

C13_Witness ==
    /\ Validated
    /\ fn.action.tool = Named("write_file")
    /\ fn.action.args = Map(<<"mode">>)
    /\ Violated(fn.action) = {4, 5}
    /\ fn.result = Criticism("missing_argument", "path")

IsMap(a) == a.args.kind = "map"

Keys(a) == Range(a.args.keys)

\* the first parameter of t, in declared order, that is required and not in ks
FirstMissing(t, ks) ==
    LET missing(k) == Signature(t)[k].required /\ Signature(t)[k].name \notin ks
        first == CHOOSE k \in 1..Len(Signature(t)) :
                    missing(k) /\ \A j \in 1..(k - 1) : ~missing(j)
    IN  Signature(t)[first].name

\* C14: for a registered tool and an argument map that lacks a required
\* parameter, validate() returns the missing-argument criticism naming the
\* first missing required parameter in declared order; the result depends on
\* the tool and the map alone.
C14_FirstMissingParameterReported ==
    Validated /\ Registered(fn.action.tool) /\ IsMap(fn.action)
        /\ ~(Required(fn.action.tool.name) \subseteq Keys(fn.action)) =>
            fn.result = Criticism("missing_argument",
                                  FirstMissing(fn.action.tool.name, Keys(fn.action)))

C14_Witness ==
    /\ Validated
    /\ fn.action.tool = Named("write_file")
    /\ fn.action.args = Map(<<"path">>)
    /\ fn.result = Criticism("missing_argument", "content")

Undeclared(a) == Keys(a) \ Declared(a.tool.name)

\* C15 as stated: for a registered tool and an argument map with a key the
\* tool does not declare, validate() returns a criticism that reports such a
\* key.
C15_UndeclaredKeyReported ==
    Validated /\ Registered(fn.action.tool) /\ IsMap(fn.action)
        /\ Undeclared(fn.action) # {} =>
            /\ IsCriticism(fn.result)
            /\ fn.result.arg \in Undeclared(fn.action)

\* the first key of the map, in the map's own order, that t does not declare
FirstUndeclared(t, ks) ==
    LET first == CHOOSE k \in 1..Len(ks) :
                    ks[k] \notin Declared(t) /\ \A j \in 1..(k - 1) : ks[j] \in Declared(t)
    IN  ks[first]

\* C15 amended: for a registered tool and an argument map with a key the tool
\* does not declare, validate() returns a criticism; when the map holds every
\* required parameter, the criticism reports the first undeclared key in the
\* map's key order (and no other); when a required parameter is missing, the
\* criticism is the missing-argument one and reports no undeclared key.
C15_FirstUndeclaredKeyReportedWhenComplete ==
    Validated /\ Registered(fn.action.tool) /\ IsMap(fn.action)
        /\ Undeclared(fn.action) # {} =>
            IF Required(fn.action.tool.name) \subseteq Keys(fn.action)
            THEN fn.result = Criticism("unexpected_argument",
                        FirstUndeclared(fn.action.tool.name, fn.action.args.keys))
            ELSE /\ fn.result.kind = "missing_argument"
                 /\ fn.result.arg \notin Undeclared(fn.action)

C15_Witness ==
    /\ Validated
    /\ fn.action.tool = Named("read_file")
    /\ fn.action.args = Map(<<"path", "mode", "encoding">>)
    /\ fn.result = Criticism("unexpected_argument", "mode")

\* C16: for every tool name (a non-empty string) that is neither "finish" nor
\* registered, validate() returns the unknown-tool criticism, which lists
\* exactly the names of the registry, each once; the names it lists are the
\* names validation and dispatch look tools up in.
C16_UnknownToolEnumeratesTheRegistry ==
    /\ Validated /\ fn.action.tool.kind = "str" /\ fn.action.tool.name # ""
        /\ fn.action.tool.name \notin ToolNames \cup {"finish"} =>
            /\ fn.result.kind = "unknown_tool"
            /\ fn.result.arg = fn.action.tool.name
            /\ Range(fn.result.tools) = ToolNames
            /\ Len(fn.result.tools) = Cardinality(ToolNames)
    /\ Validated /\ fn.result.kind = "unknown_tool" =>
            /\ fn.result.tools = get_available_tools
            /\ \A t \in ExecTools :
                    (t.kind = "str" /\ t.name \in Range(fn.result.tools))
                        = (execute_tool(t, Map(<<>>), Returns({})).kind = "ok")

C16_Witness ==
    /\ Validated
    /\ fn.action.tool = Named("delete_file")
    /\ fn.result.kind = "unknown_tool"
    /\ Len(fn.result.tools) = 22

----------------------------------------------------------------------------
(* Properties of the loop: retries, rejections and Memory *)

Corrective == Msg("assistant", "invalid_json")

C17_Step ==
    pc = "think" =>
        /\ exit = "none" /\ exit' = "none"
        /\ i' = i
        /\ calls' = calls
        /\ actions_taken' = actions_taken
        /\ learned' = learned
        /\ \/ pc' = "validate" /\ memory' = memory
           \/ pc' = "think" /\ memory' = Append(memory, Corrective)

\* C17: a reply that fails to parse adds exactly one corrective assistant
\* message to Memory and the request is made again in the same iteration: the
\* iteration counter does not advance, no tool is executed, and the loop is
\* not left, however many replies in a row fail to parse.
C17_ParseFailureRetriesInPlace == [][C17_Step]_vars

C17_Witness ==
    /\ pc = "think" /\ i > 0 /\ exit = "none"
    /\ Len(memory) >= 4
    /\ memory[Len(memory)] = Corrective
    /\ memory[Len(memory) - 1] = Corrective

Rejected(a) == ~IsEmpty(a) /\ IsCriticism(criticize_tool_call(a))

C18_State ==
    /\ actions_taken = 0
    /\ calls = <<>>
    /\ exit \in {"none", "cap_exhausted"}
    /\ Len(memory) = 2 + 2 * i
    /\ pc \notin {"confirm", "act", "recover", "decide"}
    /\ pc = "done" => i = MAX_ITERATIONS /\ learned = <<Unsuccessful>>

C18_Step ==
    pc = "validate" /\ Rejected(action) =>
        /\ memory' = Append(Append(memory, Msg("assistant", "action")),
                            Msg("user", "criticism"))
        /\ pc' = "for"
        /\ i' = i + 1
        /\ criticism' = criticize_tool_call(action)
        /\ actions_taken' = actions_taken
        /\ learned' = learned
        /\ exit' = "none"

\* C18: when validate() returns a criticism, exactly two messages are added to
\* Memory (the rejected action as assistant, then the corrective user message),
\* no confirmation, execution, recovery or continuation decision takes place,
\* and the loop goes to the next outer iteration; a run in which every action
\* is rejected makes MAX_ITERATIONS iterations and ends by cap exhaustion with
\* no tool executed.
C18_RejectionConsumesOneIteration == []C18_State /\ [][C18_Step]_vars

C18_Witness ==
    /\ exit = "cap_exhausted"
    /\ actions_taken = 0
    /\ Len(memory) = 2 + 2 * MAX_ITERATIONS
    /\ criticism.kind = "missing_argument"

IsPrefix(s, t) == Len(s) <= Len(t) /\ SubSeq(t, 1, Len(s)) = s

Seed == <<Msg("system", "system_prompt"), Msg("user", "goal")>>

\* C19: Memory is append-only: after seeding, every step of the loop leaves
\* Memory as it was or adds messages at its end, so the Memory of an earlier
\* step is a prefix of the Memory of every later step.
C19_MemoryIsAppendOnly ==
    /\ memory = Seed
    /\ [][IsPrefix(memory, memory')]_vars
    /\ [](IsPrefix(Seed, memory))

C19_Witness ==
    /\ Corrective \in Range(memory)
    /\ Msg("user", "observation_file_not_found") \in Range(memory)
    /\ Msg("assistant", "probe_action") \in Range(memory)
    /\ pc = "done"

C20_Step ==
    /\ IsPrefix(request, request')
    /\ pc = "think" => request' = memory
    /\ pc # "think" => request' = request

\* C20: every request to the LLM carries the whole of Memory as it is at the
\* call, in order, so the messages of a request are a prefix of the messages
\* of every later request and of Memory.
C20_RequestsCarryTheFullMemory ==
    /\ [](IsPrefix(request, memory))
    /\ [][C20_Step]_vars

C20_Witness ==
    /\ pc = "validate" /\ i > 1
    /\ request = memory
    /\ Corrective \in Range(request)
    /\ Msg("user", "criticism") \in Range(request)

----------------------------------------------------------------------------
(* Properties of main *)

C21_State ==
    /\ pc = "for" /\ i = 0 => memory = Seed
    /\ pc = "think" /\ request = NoRequest => memory = Seed /\ i = 0

C21_Step ==
    pc = "done" /\ pc' # "done" =>
        \/ pc' = "goodbye"
        \/ /\ pc' = "for" /\ i' = 0
           /\ memory' = Seed
           /\ request' = NoRequest

\* C21: Memory is fresh per goal: at the first request of every invocation of
\* run_agent, Memory is exactly the system prompt followed by the goal, and
\* holds no message of an earlier invocation of the process.
C21_MemoryFreshPerGoal == []C21_State /\ [][C21_Step]_vars

C21_Witness ==
    /\ pc = "think" /\ request = NoRequest
    /\ memory = Seed /\ Len(memory) = 2
    /\ budget < MaxDeviations

----------------------------------------------------------------------------
(* Properties of should_continue *)

MaxReached == "Maximum iterations reached"

TaskCompleted == "Task completed - README.md has been written"

\* the stop condition of the continuation policy, rule by rule
Stops(o, it, cap) ==
    \/ it >= cap
    \/ Readme(o)
    \/ "error" \in o /\ it > 3 /\ ~Processing(o)

\* C22: for every observation, iteration and cap, should_continue stops
\* exactly when iteration >= cap, or the observation holds "successfully wrote"
\* and "readme.md", or it holds "error" with iteration > 3 while neither the
\* found-files-matching rule nor the analysis rule matches; it continues in
\* every other case.
C22_StopExactlyOnTheThreeRules ==
    fn.op = "should_continue" =>
        \A d \in fn.results :
            /\ d.continue = ~Stops(fn.observation, fn.iteration, fn.max_iterations)
            /\ ~d.continue => d.reason \in {MaxReached, TaskCompleted, TooManyErrors}

C22_Witness ==
    /\ fn.op = "should_continue"
    /\ fn.iteration = 4 /\ fn.max_iterations = MAX_ITERATIONS
    /\ "Error executing tool" \in fn.observation
    /\ {"found", "files", "matching"} \subseteq fn.observation
    /\ fn.results = {Decision(TRUE, "Found files, need to read and process them")}

\* C23: for every observation and every cap, should_continue(observation, cap,
\* cap) returns stop with the maximum-iterations reason.
C23_StopAtTheCap ==
    fn.op = "should_continue" /\ fn.iteration = fn.max_iterations =>
        fn.results \subseteq {Decision(FALSE, MaxReached)}

C23_Witness ==
    /\ fn.op = "should_continue"
    /\ fn.iteration = 0 /\ fn.max_iterations = 0
    /\ "file analysis" \in fn.observation
    /\ fn.results = {Decision(FALSE, MaxReached)}

C25_Step ==
    fn.op = "should_continue" /\ fn' # fn =>
        /\ learned' = learned
        /\ memory' = memory
        /\ fn'.observation = fn.observation
        /\ fn'.iteration = fn.iteration
        /\ fn'.max_iterations = fn.max_iterations

WroteReadme == "Successfully wrote to 'README.md'"

C24_Policy ==
    \A cap \in PolicyCaps : \A it \in 0..(cap - 1) :
        should_continue(Text({WroteReadme}), it, cap) = Decision(FALSE, TaskCompleted)

C24_State ==
    /\ C24_Policy
    /\ exit = "policy_stop" /\ reason = TaskCompleted => Readme(observation)

C24_Step ==
    /\ pc = "recover" /\ WroteReadme \in observation /\ ~Matches(observation) =>
            pc' = "decide" /\ observation' = observation /\ i' = i
    /\ pc = "decide" /\ WroteReadme \in observation =>
            /\ pc' = "done"
            /\ exit' = "policy_stop"
            /\ reason' = TaskCompleted
            /\ i' = i

\* C24: for the observation "Successfully wrote to 'README.md'" and every
\* iteration below the cap, should_continue returns stop with the
\* task-completed reason, and the loop leaves by policy-stop in the iteration
\* whose tool call returned that observation.
C24_ReadmeWrittenStopsTheLoop ==
    /\ []C24_State
    /\ [][C24_Step]_vars

C24_Witness ==
    /\ exit = "policy_stop" /\ reason = TaskCompleted
    /\ i = MAX_ITERATIONS - 1
    /\ Len(calls) = 1 /\ calls[1].tool = "write_file"
    /\ WroteReadme \in observation

----------------------------------------------------------------------------
(* Properties of the plan generator *)

Categories == <<"search", "analysis", "creation", "debugging", "improvement">>

KeywordsOf(category) ==
    CASE category = "search" -> {"find", "search", "locate", "where", "which"}
      [] category = "analysis" -> {"analyze", "understand", "explain", "what", "how"}
      [] category = "creation" -> {"create", "write", "add", "implement", "build"}
      [] category = "debugging" -> {"fix", "debug", "error", "problem", "issue"}
      [] category = "improvement" -> {"improve", "optimize", "refactor", "better"}

\* the categories, by their place in the order, with a keyword in the goal
Matching(goal_lower) ==
    {k \in 1..Len(Categories) : AnyOf(KeywordsOf(Categories[k]), goal_lower)}

FirstCategory(goal_lower) ==
    IF Matching(goal_lower) = {}
    THEN "unknown"
    ELSE Categories[Min(Matching(goal_lower))]

ParseConfigGoal == <<"find", "the", "function", "named", "parse_config">>

Analysed == fn.op = "generate_smart_plan" /\ fn.intent # NoIntent

\* C27: the intent of a goal is the first category, in the order search,
\* analysis, creation, debugging, improvement, one of whose keywords occurs in
\* the lower-cased goal, and "unknown" when there is none; "find the function
\* named parse_config" is a search, and its suggested tools include
\* find_code_patterns and navigate_to_symbol.
C27_IntentIsFirstMatchingCategory ==
    /\ Analysed =>
            /\ fn.intent.intent_type = FirstCategory(LowerText(fn.user_goal))
            /\ fn.intent = analyze_user_intent(fn.user_goal)
    /\ analyze_user_intent(ParseConfigGoal).intent_type = "search"
    /\ {"find_code_patterns", "navigate_to_symbol"}
            \subseteq Range(analyze_user_intent(ParseConfigGoal).suggested_tools)

C27_Witness ==
    /\ Analysed
    /\ fn.user_goal = <<"fix", "Find">>
    /\ Matching(LowerText(fn.user_goal)) = {1, 4}
    /\ fn.intent.intent_type = "search"

Planned == fn.op = "generate_smart_plan" /\ fn.first # NoPlan

KnownIntent(goal) == IntentType(LowerText(goal)) \in Range(Categories)

ToolsOf(plan) == [k \in 1..Len(plan) |-> plan[k].tool]

\* the steps of the plan after the opening ones
TailOf(goal, plan) ==
    SubSeq(plan, Len(OpeningSteps(LowerText(goal))) + 1, Len(plan))

\* the tools of the per-intent templates
Template(intent_type) ==
    CASE intent_type = "search" -> <<"find_code_patterns", "explore_codebase">>
      [] intent_type = "analysis" -> <<"explore_codebase", "analyze_file">>
      [] intent_type = "creation" -> <<"get_project_health", "explore_codebase">>
      [] intent_type = "debugging" -> <<"find_code_patterns", "get_project_health">>
      [] intent_type = "improvement" -> <<"get_project_health", "suggest_improvements">>

\* C28 as stated: for a goal of one of the five intents the plan ends with 2
\* or 3 steps of the template of the intent, after the opening steps.
C28_TwoOrThreeIntentSteps ==
    Planned /\ KnownIntent(fn.user_goal) =>
        /\ Len(TailOf(fn.user_goal, fn.first)) \in {2, 3}
        /\ Range(ToolsOf(TailOf(fn.user_goal, fn.first)))
                \subseteq Range(Template(IntentType(LowerText(fn.user_goal))))

\* C28 amended: for a goal of one of the five intents the plan ends, after
\* the opening steps, with the two steps of the template of the intent; the
\* exception is a search goal from which no key term can be extracted, whose
\* plan ends with the single step explore_codebase.
C28_TwoIntentStepsUnlessNoKeyTerm ==
    Planned /\ KnownIntent(fn.user_goal) =>
        LET intent_type == IntentType(LowerText(fn.user_goal))
            tail == ToolsOf(TailOf(fn.user_goal, fn.first))
        IN  IF intent_type = "search" /\ extract_key_terms(fn.user_goal) = {}
            THEN tail = <<"explore_codebase">>
            ELSE tail = Template(intent_type)

C28_Witness ==
    /\ Planned
    /\ fn.user_goal = <<"Write", "a", "README", "file">>
    /\ ToolsOf(fn.first) = << "explore_codebase", "read_multiple_files", "write_file",
                              "get_project_health", "explore_codebase" >>

\* C29: the plan opens with explore_codebase, read_multiple_files exactly when
\* the goal contains "read" and "file", and then a write_file step follows
\* exactly when it also contains "write" and "readme"; every other plan opens
\* with the single step get_project_overview; no plan is empty.
C29_OpeningSteps ==
    Planned =>
        LET goal_lower == LowerText(fn.user_goal)
            reads == Contains(goal_lower, "read") /\ Contains(goal_lower, "file")
            writes == Contains(goal_lower, "write") /\ Contains(goal_lower, "readme")
            tools == ToolsOf(fn.first)
            pair == Len(tools) >= 2 /\ tools[1] = "explore_codebase"
                        /\ tools[2] = "read_multiple_files"
        IN  /\ Len(tools) >= 1
            /\ reads = pair
            /\ reads => (writes = (Len(tools) >= 3 /\ tools[3] = "write_file"))
            /\ ~reads => /\ tools[1] = "get_project_overview"
                         /\ \A k \in 2..Len(tools) : tools[k] # "get_project_overview"
                         /\ "write_file" \notin Range(tools)

C29_Witness ==
    /\ Planned
    /\ fn.user_goal = <<"read", "and", "write", "files">>
    /\ ToolsOf(fn.first) = << "explore_codebase", "read_multiple_files",
                              "get_project_health", "explore_codebase" >>

\* C30: two calls of generate_smart_plan with the same goal return the same
\* list of steps with the same arguments, whatever the order in which the key
\* terms of the goal are enumerated.
C30_PlanIsAFunctionOfTheGoal ==
    fn.op = "generate_smart_plan" /\ fn.second # NoPlan => fn.second = fn.first

PlanTools == Range(ToolsOf(fn.smart_plan))

C26_State ==
    /\ fn.op = "run_agent"
    /\ IsPrefix(Seed, memory)
    /\ pc = "think" =>
            \A a \in LLMActions :
                (Rejected(a) => budget > 0) => ENABLED (Think /\ action' = a)
    /\ pc \in {"confirm", "act"} => criticize_tool_call(action) = None
    /\ \A k \in CallsBy("llm") :
            calls[k].tool = action.tool.name \/ action = ProbeAction

\* C26: the plan is advisory: under every plan Memory starts with the same
\* system prompt and goal, every reply of the LLM is possible at every request
\* and is validated against the registry alone, the tool dispatched is the one
\* of the LLM's action whether or not the plan holds it, and no step of the
\* loop changes the plan.
C26_PlanIsAdvisory ==
    /\ []C26_State
    /\ [][fn' = fn]_vars

C26_Witness ==
    /\ fn.op = "run_agent"
    /\ pc = "decide" /\ i = 0
    /\ calls[1].tool = "execute_command"
    /\ "execute_command" \notin PlanTools
    /\ fn.smart_plan[1].tool = "explore_codebase"

----------------------------------------------------------------------------
(* Properties of the recovery step *)

C31_State ==
    /\ Len(calls) <= 2
    /\ Cardinality(CallsBy("probe")) <= 1
    /\ Len(calls) >= 1 => calls[1].by = "llm"
    /\ Len(calls) = 2 => calls[2].by = "probe"
    /\ pc = "decide" /\ action = ProbeAction => Len(calls) = 2

C31_Step ==
    /\ Len(calls') > Len(calls) => pc \in {"act", "recover"} /\ Len(calls') = Len(calls) + 1
    /\ pc = "act" /\ calls' # calls => calls' = <<Call(action, "llm", observation')>>
    /\ pc = "recover" =>
            /\ pc' = "decide"
            /\ IF Matches(observation)
               THEN calls' = Append(calls, Call(ProbeAction, "probe", observation'))
               ELSE calls' = calls
    /\ pc = "decide" => calls' \in {calls, <<>>} /\ pc' \in {"for", "done"}

\* C31: in every iteration at most two tools are executed, the action of the
\* LLM and then, when its observation holds "Error: File" and "not found", one
\* working-directory probe; after the probe the loop goes on to
\* should_continue whatever the probe returned, so no second probe is made.
C31_RecoverIsOneShot ==
    /\ []C31_State
    /\ [][C31_Step]_vars

C31_Witness ==
    /\ pc = "decide"
    /\ Len(calls) = 2
    /\ action = ProbeAction
    /\ Matches(observation)

ProbePair == <<Msg("assistant", Dumps(ProbeAction)), Msg("user", "observation")>>

C32_State ==
    /\ pc = "decide" => Len(calls) >= 1 /\ observation = calls[Len(calls)].result
    /\ pc = "decide" /\ Len(calls) = 2 =>
            /\ action = ProbeAction
            /\ calls[2].by = "probe" /\ calls[2].tool = "execute_command"
            /\ Matches(calls[1].result)

C32_Step ==
    pc = "decide" /\ Len(calls) = 2 =>
        LET d == should_continue(calls[2].result, i, MAX_ITERATIONS)
        IN  IF d.continue
            THEN /\ pc' = "for" /\ i' = i + 1
                 /\ memory' = memory \o ProbePair
            ELSE /\ pc' = "done" /\ exit' = "policy_stop" /\ reason' = d.reason
                 /\ memory' = memory

\* C32: in an iteration where the recovery fires, should_continue is given
\* what the probe returned, never what the LLM's tool call returned, and on
\* continue the two messages appended are the probe action and the
\* observation of the probe.
C32_PolicySeesTheProbe ==
    /\ []C32_State
    /\ [][C32_Step]_vars

\* the iteration with index 4 recovered and the loop went on: on the
\* file-not-found text itself the too-many-errors rule would have stopped it
C32_Witness ==
    /\ pc = "for" /\ i = 5
    /\ Len(memory) >= 4
    /\ SubSeq(memory, Len(memory) - 1, Len(memory)) = ProbePair
    /\ memory[Len(memory) - 2] = Msg("user", "observation_file_not_found")
    /\ ~should_continue(Text({"Error: File", "not found"}), 4, MAX_ITERATIONS).continue

FileNotFound == Msg("user", "observation_file_not_found")

OriginalPair(a) == <<Msg("assistant", Dumps(a)), FileNotFound>>

\* the places of the file-not-found observations in a history
Recoveries(history) == {k \in 1..Len(history) : history[k] = FileNotFound}

C33_State ==
    /\ \A k \in Recoveries(memory) : k > 2 /\ memory[k - 1].role = "assistant"
    /\ pc = "decide" /\ Len(calls) = 2 =>
            /\ memory[Len(memory)] = FileNotFound
            /\ memory[Len(memory) - 1].role = "assistant"
            /\ memory[Len(memory) - 1].content \in {Dumps(ProbeAction), "action"}
            /\ calls[1].tool # ProbeAction.tool.name =>
                    memory[Len(memory) - 1].content = "action"
    /\ Recoveries(request) \subseteq Recoveries(memory)

C33_Step ==
    /\ IsPrefix(memory, memory')
    /\ pc = "recover" =>
            memory' = IF Matches(observation) THEN memory \o OriginalPair(action) ELSE memory
    /\ pc = "think" => request' = memory
    /\ pc = "decide" /\ Len(calls) = 2 /\ pc' = "done" =>
            memory' = memory /\ memory[Len(memory)] = FileNotFound

\* C33: when the recovery fires, the action of the LLM and its file-not-found
\* observation are appended to Memory, assistant message then user message, in
\* the step that runs the probe; Memory only grows, so every later request to
\* the LLM holds them, also when should_continue then stops on the probe.
C33_OriginalStaysInHistory ==
    /\ []C33_State
    /\ [][C33_Step]_vars

\* a request of a later iteration holds the failed action, its observation
\* and then the probe and its observation
C33_Witness ==
    /\ pc = "validate"
    /\ \E k \in Recoveries(request) :
        /\ k + 2 <= Len(request)
        /\ request[k - 1] = Msg("assistant", "action")
        /\ SubSeq(request, k + 1, k + 2) = ProbePair

----------------------------------------------------------------------------
(* Properties of the exits *)

\* the reply {}
EmptyReply == Act(Tool("absent", ""), NoArgs, "absent")

C34_State ==
    exit = "no_action" =>
        /\ pc = "done"
        /\ action = EmptyReply
        /\ calls = <<>>
        /\ learned = <<>>
        /\ request = memory
        /\ i < MAX_ITERATIONS

C34_Step ==
    pc = "validate" /\ action = EmptyReply =>
        /\ pc' = "done" /\ exit' = "no_action"
        /\ UNCHANGED <<i, memory, action, criticism, observation, actions_taken,
                       calls, learned, reason>>

\* C34: when the reply of the LLM parses to an empty (falsy) value the loop
\* is left in that iteration: no criticism is computed, Memory is as it was
\* sent to the LLM, no tool runs and learn_from_interaction is not called.
C34_EmptyReplyLeavesAtOnce ==
    /\ []C34_State
    /\ [][C34_Step]_vars

\* an empty reply in the third iteration, after two executed actions
C34_Witness ==
    /\ exit = "no_action"
    /\ i = 2
    /\ actions_taken = 2
    /\ Len(memory) = Len(Seed) + 4

C35_State ==
    /\ Len(learned) <= 1
    /\ learned # <<>> =>
            /\ pc = "done"
            /\ exit \in {"finish", "cap_exhausted"}
            /\ learned[1].success <=> exit = "finish"
    /\ exit \in {"policy_stop", "user_abort"} => learned = <<>>
    /\ exit \in {"finish", "cap_exhausted"} => Len(learned) = 1

\* C35: learn_from_interaction is called at most once in a run, and only in
\* a run that ends by finish (with success true) or by the exhausted cap
\* (with success false); a run that ends by policy-stop or user-abort makes
\* no learning call.
C35_LearningOnlyOnFinishAndCap ==
    C35_State

C36_State ==
    /\ pc \in {"think", "validate", "confirm", "act", "recover", "decide"} =>
            i \in 0..(MAX_ITERATIONS - 1)
    /\ pc = "decide" =>
            should_continue(observation, i, MAX_ITERATIONS) # Decision(FALSE, MaxReached)
    /\ exit = "policy_stop" => reason \in {TaskCompleted, TooManyErrors}
    /\ reason # MaxReached
    /\ exit = "cap_exhausted" => i = MAX_ITERATIONS /\ reason = ""

C36_Step ==
    /\ exit' = "cap_exhausted" /\ exit # "cap_exhausted" => pc = "for" /\ i = MAX_ITERATIONS
    /\ exit' = "policy_stop" /\ exit # "policy_stop" => pc = "decide" /\ i < MAX_ITERATIONS

\* C36: in a run should_continue is called with an iteration index of
\* 0..MAX_ITERATIONS-1 only, so its rule `iteration >= max_iterations` never
\* fires: no run ends by policy-stop with the maximum-iterations reason, and
\* the exhausted cap is reported by the else clause of the for loop alone.
C36_CapRuleNeverFiresInARun ==
    /\ []C36_State
    /\ [][C36_Step]_vars

\* the policy lets the last iteration go on, and the range is exhausted
C36_Witness ==
    /\ pc = "decide"
    /\ i = MAX_ITERATIONS - 1
    /\ should_continue(observation, i, MAX_ITERATIONS).continue
    /\ ~should_continue(observation, i + 1, MAX_ITERATIONS).continue

\* the two messages that end an iteration
IterationPair(a) == <<Msg("assistant", Dumps(a)), Msg("user", "observation")>>

C37_State ==
    exit = "policy_stop" =>
        /\ Len(calls) = 1 => memory = request
        /\ Len(calls) = 2 =>
                /\ Len(memory) = Len(request) + 2
                /\ IsPrefix(request, memory)
                /\ memory[Len(memory)] = FileNotFound

C37_Step ==
    pc = "decide" =>
        IF should_continue(observation, i, MAX_ITERATIONS).continue
        THEN /\ memory' = memory \o IterationPair(action)
             /\ Len(memory') = Len(memory) + 2
             /\ pc' = "for"
        ELSE /\ memory' = memory
             /\ pc' = "done" /\ exit' = "policy_stop"

\* C37: when should_continue returns stop the loop is left with Memory
\* unchanged, the stopping action and its observation are not appended; when
\* it returns continue exactly two messages are appended, the assistant
\* message of the action and then the user message of the observation.
C37_StopAppendsNothing ==
    /\ []C37_State
    /\ [][C37_Step]_vars

\* stopped in the first iteration: Memory holds the prompt and the goal only
C37_Witness ==
    /\ exit = "policy_stop"
    /\ i = 0 /\ actions_taken = 1
    /\ memory = Seed
    /\ Readme(observation)

----------------------------------------------------------------------------
(* Properties of the history at the LLM boundary *)

InvalidJson == Msg("assistant", "invalid_json")

\* the request before this one, of the same iteration, did not parse
Failed == request # NoRequest /\ memory = Append(request, InvalidJson)

SystemMessages(history) == {k \in 1..Len(history) : history[k].role = "system"}

C38_State ==
    /\ pc = "think" =>
            /\ IsPrefix(Seed, memory)
            /\ SystemMessages(memory) = {1}
            /\ IF Len(memory) = Len(request) + 1
               THEN Failed
               ELSE Last(memory).role = "user"
    /\ \A k \in 1..(Len(memory) - 1) :
            memory[k].role = "assistant" /\ memory[k + 1].role = "assistant" =>
                memory[k] = InvalidJson

C38_Step ==
    /\ pc = "think" /\ pc' = "think" => Len(memory') = Len(request') + 1
    /\ pc = "think" /\ pc' # "think" => memory' = request'
    /\ pc # "think" /\ pc' = "think" => Len(memory') # Len(request') + 1

\* C38: at every request to the LLM Memory starts with the one system message
\* and then the goal, and its last message is a user message, unless the
\* request before it, in the same iteration, failed to parse: then the last
\* message is the corrective assistant message. Two assistant messages in a
\* row occur only with such a corrective message first.
C38_HistoryShapeAtEachRequest ==
    /\ []C38_State
    /\ [][C38_Step]_vars

\* a reply that did not parse, then a rejected action: two assistant
\* messages in a row, and the next request ends with a user message
C38_Witness ==
    /\ pc = "think" /\ i = 1
    /\ memory = Seed \o <<InvalidJson, Msg("assistant", "action"), Msg("user", "criticism")>>

----------------------------------------------------------------------------
(* Termination *)

C39_State ==
    /\ i \in 0..MAX_ITERATIONS
    /\ pc \notin {"for", "done"} => i < MAX_ITERATIONS
    /\ pc = "done" => exit # "none"

C39_Step ==
    /\ i' \in {i, i + 1}
    /\ i' = i + 1 => pc \in {"validate", "decide"} /\ pc' = "for"
    /\ pc = "done" => pc' = "done"

\* C39: when every request to the LLM is in the end answered by a reply that
\* parses, and every tool call and confirmation prompt returns, every run of
\* the loop reaches a terminal state and stays there, having started at most
\* MAX_ITERATIONS iterations.
C39_EveryRunTerminates ==
    /\ []C39_State
    /\ [][C39_Step]_vars
    /\ <>[](pc = "done")

\* a run that used every iteration, with a reply that did not parse on the way
C39_Witness ==
    /\ pc = "done" /\ exit = "cap_exhausted"
    /\ i = MAX_ITERATIONS
    /\ budget = 0
    /\ \E k \in 1..Len(memory) : memory[k] = InvalidJson

----------------------------------------------------------------------------
(* The legacy loop: run_agent_loop of the cria package *)

AVAILABLE_TOOLS == {"list_files", "read_file", "write_file", "execute_command"}

\* JSON objects json.loads can return for the LLM's reply
LegacyReplies ==
    { Act(Tool("absent", ""), NoArgs, "absent"),            \* {}
      Act(Named("finish"), MapResp("str"), "absent"),
      Act(Named("finish"), NoArgs, "absent"),
      Act(Named("finish"), NullArgs, "absent"),
      Act(Named("read_file"), Map(<<"path">>), "absent"),
      Act(Named("read_file"), Map(<<>>), "absent"),
      Act(Named("write_file"), NullArgs, "absent"),
      Act(Named("delete_file"), Map(<<"path">>), "absent"),
      Act(Tool("list", ""), Map(<<>>), "absent") }

\* the texts the legacy tools and execute_tool return
LegacyOutputs == {Text({}), Text({"Error: File", "not found"}), Text({"error"})}

\* get_initial_messages
get_initial_messages == <<Msg("system", "system_prompt"), Msg("user", "goal")>>

\* the parameters of the legacy tools, and those without a default
LegacyDeclared(t) ==
    CASE t = "list_files" -> {"path"}
      [] t = "read_file" -> {"path"}
      [] t = "write_file" -> {"path", "content"}
      [] t = "execute_command" -> {"command"}

LegacyRequired(t) == IF t = "list_files" THEN {} ELSE LegacyDeclared(t)

\* tool_function(**tool_args) binds the arguments by name
LegacyBinds(t, v) ==
    /\ v.kind = "map"
    /\ LegacyRequired(t) \subseteq Range(v.keys)
    /\ Range(v.keys) \subseteq LegacyDeclared(t)

\* the legacy execute_tool: "RAISE" for a name that cannot be hashed, the
\* unknown-tool text, the invalid-arguments text, or what the tool returns
LegacyExecuteTool(tool, tool_args, out) ==
    IF tool.kind = "list"
    THEN Raise("TypeError")
    ELSE IF tool.kind # "str" \/ tool.name \notin AVAILABLE_TOOLS
    THEN Ok(Text({"error"}))
    ELSE IF ~LegacyBinds(tool.name, tool_args)
    THEN Ok(Text({"error"}))
    ELSE Ok(out)

LegacyRun(n) == [op |-> "run_agent_loop", llm_calls |-> n]

InitLegacy ==
    /\ pc = "for"
    /\ i = 0
    /\ memory = get_initial_messages
    /\ action = NoAction
    /\ criticism = None
    /\ user_response = NotAsked
    /\ observation = NoObservation
    /\ actions_taken = 0
    /\ calls = <<>>
    /\ learned = <<>>
    /\ exit = "none"
    /\ reason = ""
    /\ budget = 0
    /\ fn = LegacyRun(0)
    /\ request = NoRequest

\* `for i in range(agent.MAX_ITERATIONS)` and its else clause
LegacyFor ==
    /\ pc = "for"
    /\ IF i < MAX_ITERATIONS
       THEN pc' = "think" /\ UNCHANGED exit
       ELSE Leave("cap_exhausted")
    /\ UNCHANGED <<i, memory, action, criticism, user_response, observation,
                   actions_taken, calls, learned, reason, budget, fn, request>>

\* mutant: a reply that does not parse is asked for again
LegacyParseFailure_Retries ==
    /\ pc = "think"
    /\ fn' = LegacyRun(fn.llm_calls + 1)
    /\ request' = memory
    /\ UNCHANGED <<pc, i, memory, action, criticism, user_response, observation,
                   actions_taken, calls, learned, exit, reason, budget>>

\* get_next_action returns None for a reply that does not parse, and
\* `if not action: break`
LegacyParseFailure ==
    /\ pc = "think"
    /\ fn' = LegacyRun(fn.llm_calls + 1)
    /\ request' = memory
    /\ action' = NoAction
    /\ Leave("no_action")
    /\ UNCHANGED <<i, memory, criticism, user_response, observation,
                   actions_taken, calls, learned, reason, budget>>

\* the reply parses: break on an empty one, else append it and branch on finish
LegacyThink ==
    /\ pc = "think"
    /\ fn' = LegacyRun(fn.llm_calls + 1)
    /\ request' = memory
    /\ \E a \in LegacyReplies :
        /\ action' = a
        /\ IF IsEmpty(a)
           THEN /\ Leave("no_action")
                /\ UNCHANGED memory
           ELSE /\ memory' = Append(memory, Msg("assistant", "action"))
                /\ IF a.tool = Named("finish")
                   THEN Leave(IF a.args.kind \in {"map", "absent"}
                              THEN "finish"
                              ELSE "exception")    \* tool_args.get on None
                   ELSE pc' = "act" /\ UNCHANGED exit
    /\ UNCHANGED <<i, criticism, user_response, observation, actions_taken,
                   calls, learned, reason, budget>>

\* observation = agent.execute_tool(tool_name, tool_args), then the tool
\* output is appended as a system message
LegacyExecute ==
    /\ pc = "act"
    /\ \E out \in LegacyOutputs :
        LET r == LegacyExecuteTool(action.tool, GetArgs(action), out)
        IN  IF r.kind = "RAISE"
            THEN /\ Leave("exception")
                 /\ UNCHANGED <<i, memory, observation>>
            ELSE /\ observation' = r.text
                 /\ memory' = Append(memory, Msg("system", "tool_output"))
                 /\ i' = i + 1
                 /\ pc' = "for"
                 /\ UNCHANGED exit
    /\ UNCHANGED <<action, criticism, user_response, actions_taken, calls,
                   learned, reason, budget, fn, request>>

NextLegacy ==
    \/ LegacyFor
    \/ LegacyParseFailure
    \/ LegacyThink
    \/ LegacyExecute

\* every request to the LLM is answered and every tool call returns
SpecLegacy == InitLegacy /\ [][NextLegacy]_vars /\ WF_vars(NextLegacy)

C40_State ==
    /\ fn.op = "run_agent_loop"
    /\ fn.llm_calls <= MAX_ITERATIONS
    /\ fn.llm_calls = IF pc \in {"for", "think"} \/ exit = "cap_exhausted" THEN i ELSE i + 1
    /\ i \in 0..MAX_ITERATIONS
    /\ exit = "no_action" /\ action = NoAction =>
            memory = request /\ Len(memory) = Len(get_initial_messages) + 2 * i

C40_Step ==
    /\ fn'.llm_calls # fn.llm_calls =>
            /\ pc = "think" /\ pc' # "think"
            /\ fn'.llm_calls = fn.llm_calls + 1
    /\ pc = "think" /\ action' = NoAction =>
            /\ pc' = "done" /\ exit' = "no_action"
            /\ memory' = memory
    /\ pc = "done" => pc' = "done"

\* C40: in the legacy loop a reply that does not parse is not asked for
\* again: the run ends there, nothing is appended to the messages, so a run
\* makes at most MAX_ITERATIONS requests to the LLM, one in each iteration,
\* and every run reaches its end.
C40_LegacyLoopNeverRetries ==
    /\ []C40_State
    /\ [][C40_Step]_vars
    /\ <>[](pc = "done")

\* the reply of the fourth iteration did not parse
C40_Witness ==
    /\ pc = "done" /\ exit = "no_action"
    /\ action = NoAction
    /\ fn = LegacyRun(4)
    /\ i = 3
    /\ Len(memory) = 8

====
